---- MODULE Spec2Model ----
(***************************************************************************)
(* BankLab: XBRL fact normalization (banklab/clean/xbrl_normalize.py), the *)
(* KPI ratio library (banklab/kpi/kpi.py) and the data quality checks      *)
(* (banklab/quality/checks.py).                                            *)
(*                                                                         *)
(* A raw-facts table is a sequence of rows (row order is the DataFrame's   *)
(* row order).  Numeric cells are records [k, n, d]: k = "num" is the      *)
(* rational n/d, k = "nan" is NaN, k = "none" is Python's None.            *)
(***************************************************************************)
EXTENDS Integers, Sequences, FiniteSets, TLC

VARIABLES
    raw_facts,   \* the table handed to XBRLNormalizer.normalize
    output,      \* the rows normalize returned (empty when it raised)
    raised,      \* TRUE when normalize ended with an exception
    pc,          \* "input" while the table is assembled, "done" after normalize
    kpi_call,    \* the last KPI library call: function name and arguments
    kpi_result,  \* the value that call returned
    panel,       \* the panel handed to the quality checks, one record per row
    report,      \* the QualityReport the checks append to
    include_kpi_checks,  \* the argument of the last run_all_checks call
    wide,        \* the frame to_wide_format returned
    outputs,     \* the artifacts FundamentalsPipeline.run has written
    files,       \* the files of the cache directory: path -> content
    calls,       \* the cache, loader and HTTP calls made, with their results
    _ticker_cik_map  \* the ticker -> CIK map the SECLoader keeps in memory

vars == <<raw_facts, output, raised, pc, kpi_call, kpi_result, panel, report,
          include_kpi_checks, wide, outputs, files, calls, _ticker_cik_map>>

-----------------------------------------------------------------------------
(* Bounds of the model *)

MaxFacts == 3
MaxRows == 2
MaxCalls == 3

-----------------------------------------------------------------------------
(* Numeric cells *)

NaN == [k |-> "nan", n |-> 0, d |-> 1]
None == [k |-> "none", n |-> 0, d |-> 1]
Num(x) == [k |-> "num", n |-> x, d |-> 1]

IsNaN(v) == v.k = "nan"

Abs(x) == IF x < 0 THEN -x ELSE x

RECURSIVE Gcd(_, _)
Gcd(a, b) == IF b = 0 THEN a ELSE Gcd(b, a % b)

\* the rational a/b in lowest terms with a positive denominator (b # 0)
Frac(a, b) ==
    LET g == Gcd(Abs(a), Abs(b))
        s == IF b < 0 THEN -1 ELSE 1
    IN [k |-> "num", n |-> (s * a) \div g, d |-> Abs(b) \div g]

-----------------------------------------------------------------------------
(* Line-item registry: self.mappings, in dict order.  Four entries of      *)
(* BANK_LINE_ITEM_MAPPINGS and one custom entry with the third documented  *)
(* unit_filter, 'pure', as XBRLNormalizer(mappings=...) accepts.           *)

mappings ==
    << [name |-> "net_income",
        tags |-> <<"us-gaap:NetIncomeLoss", "us-gaap:ProfitLoss",
                   "us-gaap:NetIncomeLossAvailableToCommonStockholdersBasic">>,
        unit_filter |-> "USD"],
       [name |-> "total_assets",
        tags |-> <<"us-gaap:Assets">>,
        unit_filter |-> "USD"],
       [name |-> "total_equity",
        tags |-> <<"us-gaap:StockholdersEquity",
                   "us-gaap:StockholdersEquityIncludingPortionAttributableToNoncontrollingInterest">>,
        unit_filter |-> "USD"],
       [name |-> "shares_outstanding",
        tags |-> <<"us-gaap:CommonStockSharesOutstanding",
                   "us-gaap:CommonStockSharesIssued">>,
        unit_filter |-> "shares"],
       [name |-> "tier1_ratio",
        tags |-> <<"us-gaap:TierOneRiskBasedCapitalToRiskWeightedAssets">>,
        unit_filter |-> "pure"] >>

min_year == 2015

StdPeriods == {"Q1", "Q2", "Q3", "Q4", "FY"}

preferred_forms == <<"10-K", "10-Q", "10-K/A", "10-Q/A">>

\* string order of the key columns, as sort_values and groupby compare them
TickerRank == [t \in {"BAC", "JPM"} |-> IF t = "BAC" THEN 1 ELSE 2]
PeriodRank ==
    [p \in StdPeriods |->
        CASE p = "FY" -> 1 [] p = "Q1" -> 2 [] p = "Q2" -> 3
          [] p = "Q3" -> 4 [] p = "Q4" -> 5]
ItemRank ==
    [i \in {"net_income", "shares_outstanding", "tier1_ratio", "total_assets",
            "total_equity"} |->
        CASE i = "net_income" -> 1 [] i = "shares_outstanding" -> 2
          [] i = "tier1_ratio" -> 3 [] i = "total_assets" -> 4
          [] i = "total_equity" -> 5]

-----------------------------------------------------------------------------
(* Sequence helpers *)

Range(s) == {s[i] : i \in 1..Len(s)}

SetMax(S) == CHOOSE x \in S : \A y \in S : y <= x

\* values of s in order of first appearance (Series.unique)
RECURSIVE unique(_)
unique(s) ==
    IF s = <<>> THEN <<>>
    ELSE LET front == unique(SubSeq(s, 1, Len(s) - 1))
             last == s[Len(s)]
         IN IF last \in Range(front) THEN front ELSE Append(front, last)

RECURSIVE Flatten(_)
Flatten(ss) == IF ss = <<>> THEN <<>> ELSE Head(ss) \o Flatten(Tail(ss))

-----------------------------------------------------------------------------
(* XBRLNormalizer *)

\* (mutant) the filter without its fiscal-year condition
YearPeriodFilterNoYear(raw) ==
    LET keep(r) == r.fp \in StdPeriods
    IN SelectSeq(raw, keep)

\* normalize: the year/period filter on the raw table
YearPeriodFilter(raw) ==
    LET keep(r) == r.fy >= min_year /\ r.fp \in StdPeriods
    IN SelectSeq(raw, keep)

\* _extract_line_item: "Filter by unit"
UnitFilter(period_df, mapping) ==
    LET usd(r) == r.unit = "USD"
        shares(r) == r.unit = "shares"
    IN IF mapping.unit_filter = "USD" THEN SelectSeq(period_df, usd)
       ELSE IF mapping.unit_filter = "shares" THEN SelectSeq(period_df, shares)
       ELSE period_df

\* (mutant) no form preference: every duplicate is kept
PreferFormsNone(tag_df, i) == tag_df

\* _extract_line_item: the loop over preferred_forms, from position i on
RECURSIVE PreferForms(_, _)
PreferForms(tag_df, i) ==
    IF i > Len(preferred_forms) THEN tag_df
    ELSE LET isform(r) == r.form = preferred_forms[i]
             form_df == SelectSeq(tag_df, isform)
         IN IF Len(form_df) > 0 THEN form_df ELSE PreferForms(tag_df, i + 1)

\* _extract_line_item: sort_values("date", ascending=False).head(1).  The
\* default sort is not stable: among the rows tied on the greatest date the
\* one that comes first is any of them, here the one the index tie selects.
MostRecent(tag_df, tie) ==
    LET top == SetMax({tag_df[i].date : i \in 1..Len(tag_df)})
        istop(r) == r.date = top
        tied == SelectSeq(tag_df, istop)
    IN tied[((tie - 1) % Len(tied)) + 1]

\* _extract_line_item: deduplication of the rows of one tag
Deduplicate(tag_df, tie) ==
    IF Len(tag_df) > 1 THEN MostRecent(PreferForms(tag_df, 1), tie)
    ELSE tag_df[1]

NotFound == [found |-> FALSE, value |-> NaN, source_tag |-> ""]

\* _extract_line_item: the loop over mapping.tags, from position i on
RECURSIVE TryTags(_, _, _, _)
TryTags(unit_df, tags, i, tie) ==
    IF i > Len(tags) THEN NotFound
    ELSE LET istag(r) == r.tag = tags[i]
             tag_df == SelectSeq(unit_df, istag)
         IN IF Len(tag_df) = 0 THEN TryTags(unit_df, tags, i + 1, tie)
            ELSE LET chosen == Deduplicate(tag_df, tie)
                 IN IF IsNaN(chosen.value)
                    THEN TryTags(unit_df, tags, i + 1, tie)
                    ELSE [found |-> TRUE, value |-> chosen.value,
                          source_tag |-> tags[i]]

\* (mutant) the value of the first tag that has a row, NaN or not
RECURSIVE TryTagsKeepNaN(_, _, _, _)
TryTagsKeepNaN(unit_df, tags, i, tie) ==
    IF i > Len(tags) THEN NotFound
    ELSE LET istag(r) == r.tag = tags[i]
             tag_df == SelectSeq(unit_df, istag)
         IN IF Len(tag_df) = 0 THEN TryTagsKeepNaN(unit_df, tags, i + 1, tie)
            ELSE [found |-> TRUE, value |-> Deduplicate(tag_df, tie).value,
                  source_tag |-> tags[i]]

_extract_line_item_keep_nan(period_df, mapping, tie) ==
    TryTagsKeepNaN(UnitFilter(period_df, mapping), mapping.tags, 1, tie)

\* (mutant) the tags tried from the last to the first
_extract_line_item_reversed(period_df, mapping, tie) ==
    LET n == Len(mapping.tags)
    IN TryTags(UnitFilter(period_df, mapping),
               [i \in 1..n |-> mapping.tags[n + 1 - i]], 1, tie)

\* _extract_line_item(period_df, mapping) -> (value, source_tag)
_extract_line_item(period_df, mapping, tie) ==
    TryTags(UnitFilter(period_df, mapping), mapping.tags, 1, tie)

\* (mutant) the date of the first fact of the period
PeriodDateOfFirst(period_df) == period_df[1].date

\* _normalize_ticker: the date every row of one period carries
PeriodDate(period_df) == SetMax({period_df[i].date : i \in 1..Len(period_df)})

\* _normalize_ticker: the rows of one (fy, fp), one per resolved mapping,
\* for the mappings from position m on
RECURSIVE PeriodRows(_, _, _, _, _, _)
PeriodRows(period_df, ticker, fy, fp, m, tie) ==
    IF m > Len(mappings) THEN <<>>
    ELSE LET got == _extract_line_item(period_df, mappings[m], tie)
             rest == PeriodRows(period_df, ticker, fy, fp, m + 1, tie)
         IN IF got.found
            THEN << [ticker |-> ticker, fiscal_year |-> fy, fiscal_period |-> fp,
                     date |-> PeriodDate(period_df),
                     line_item |-> mappings[m].name,
                     value |-> got.value, source_tag |-> got.source_tag] >> \o rest
            ELSE rest

\* _normalize_ticker: groupby(["fy", "fp"]) yields each period once, sorted
PeriodLess(a, b) ==
    \/ a[1] < b[1]
    \/ a[1] = b[1] /\ PeriodRank[a[2]] < PeriodRank[b[2]]

RECURSIVE SortedPeriods(_)
SortedPeriods(S) ==
    IF S = {} THEN <<>>
    ELSE LET least == CHOOSE p \in S : \A q \in S \ {p} : PeriodLess(p, q)
         IN <<least>> \o SortedPeriods(S \ {least})

\* (mutant) one period per row, without the grouping
periods_of_rows(ticker_df) ==
    [i \in 1..Len(ticker_df) |-> <<ticker_df[i].fy, ticker_df[i].fp>>]

periods_of(ticker_df) ==
    SortedPeriods({<<ticker_df[i].fy, ticker_df[i].fp>> : i \in 1..Len(ticker_df)})

_normalize_ticker(ticker_df, ticker, tie) ==
    LET periods == periods_of(ticker_df)
        rows(p) ==
            LET inperiod(r) == r.fy = p[1] /\ r.fp = p[2]
            IN PeriodRows(SelectSeq(ticker_df, inperiod), ticker, p[1], p[2], 1, tie)
    IN Flatten([j \in 1..Len(periods) |-> rows(periods[j])])

\* normalize: sort_values(["ticker", "fiscal_year", "fiscal_period", "line_item"])
RowLess(a, b) ==
    LET x == <<TickerRank[a.ticker], a.fiscal_year,
               PeriodRank[a.fiscal_period], ItemRank[a.line_item]>>
        y == <<TickerRank[b.ticker], b.fiscal_year,
               PeriodRank[b.fiscal_period], ItemRank[b.line_item]>>
    IN \E i \in 1..4 : x[i] < y[i] /\ \A j \in 1..(i - 1) : x[j] = y[j]

RECURSIVE InsertRow(_, _)
InsertRow(sorted, r) ==
    IF sorted = <<>> THEN <<r>>
    ELSE IF RowLess(r, Head(sorted)) THEN <<r>> \o sorted
    ELSE <<Head(sorted)>> \o InsertRow(Tail(sorted), r)

RECURSIVE sort_values(_)
sort_values(rows) ==
    IF rows = <<>> THEN <<>>
    ELSE InsertRow(sort_values(SubSeq(rows, 1, Len(rows) - 1)), rows[Len(rows)])

\* normalize: one frame per ticker of the filtered table, in order of appearance
TickerFrames(df, tie) ==
    LET tickers == unique([i \in 1..Len(df) |-> df[i].ticker])
        frame(t) ==
            LET isticker(r) == r.ticker = t
            IN _normalize_ticker(SelectSeq(df, isticker), t, tie)
    IN [j \in 1..Len(tickers) |-> frame(tickers[j])]

\* normalize.  With no ticker it returns an empty frame.  Otherwise it
\* concatenates the per-ticker frames and sorts on the key columns; when every
\* frame is empty the concatenation has no columns and sort_values raises
\* KeyError.
normalize(raw, tie) ==
    LET df == YearPeriodFilter(raw)
        results == TickerFrames(df, tie)
        concat == Flatten(results)
    IN IF results = <<>> THEN [rows |-> <<>>, raised |-> FALSE]
       ELSE IF concat = <<>> THEN [rows |-> <<>>, raised |-> TRUE]
       ELSE [rows |-> sort_values(concat), raised |-> FALSE]

-----------------------------------------------------------------------------
(* KPI library (banklab/kpi/kpi.py).  The numeric arguments are counted in  *)
(* units of 1e-11, so that the guard 1e-10 of _is_zero is 10 units and     *)
(* values on both sides of it exist; a ratio of two arguments is the exact *)
(* rational.                                                               *)

Epsilon == 10

\* ZeroDivisionError out of a division
Raise == [k |-> "raise", n |-> 0, d |-> 1]

Div(a, b) == IF b.n = 0 THEN Raise ELSE Frac(a.n * b.d, a.d * b.n)
Add(a, b) == Frac(a.n * b.d + b.n * a.d, a.d * b.d)
Sub(a, b) == Frac(a.n * b.d - b.n * a.d, a.d * b.d)
Scale(a, c) == IF a.k = "num" THEN Frac(a.n * c, a.d) ELSE a
AbsVal(a) == [a EXCEPT !.n = Abs(a.n)]

_is_invalid(value) == value.k # "num"

\* (mutant) the comparison without abs()
_is_zero_signed(value) ==
    IF _is_invalid(value) THEN FALSE ELSE value.n < Epsilon * value.d

_is_zero(value) ==
    IF _is_invalid(value) THEN FALSE ELSE Abs(value.n) < Epsilon * value.d

return_on_equity(net_income, total_equity, annualize, periods_per_year) ==
    IF _is_invalid(net_income) \/ _is_invalid(total_equity) THEN NaN
    ELSE IF _is_zero(total_equity) THEN NaN
    ELSE LET roe == Div(net_income, total_equity)
         IN IF annualize THEN Scale(roe, periods_per_year) ELSE roe

return_on_assets(net_income, total_assets, annualize, periods_per_year) ==
    IF _is_invalid(net_income) \/ _is_invalid(total_assets) THEN NaN
    ELSE IF _is_zero(total_assets) THEN NaN
    ELSE LET roa == Div(net_income, total_assets)
         IN IF annualize THEN Scale(roa, periods_per_year) ELSE roa

net_interest_margin(net_interest_income, total_assets, annualize, periods_per_year) ==
    IF _is_invalid(net_interest_income) \/ _is_invalid(total_assets) THEN NaN
    ELSE IF _is_zero(total_assets) THEN NaN
    ELSE LET nim == Div(net_interest_income, total_assets)
         IN IF annualize THEN Scale(nim, periods_per_year) ELSE nim

efficiency_ratio(noninterest_expense, total_revenue) ==
    IF _is_invalid(noninterest_expense) \/ _is_invalid(total_revenue) THEN NaN
    ELSE IF _is_zero(total_revenue) THEN NaN
    ELSE Div(noninterest_expense, total_revenue)

pre_provision_net_revenue(net_interest_income, noninterest_income, noninterest_expense) ==
    LET nii == IF _is_invalid(net_interest_income) THEN Num(0)
               ELSE net_interest_income
        non_int_inc == IF _is_invalid(noninterest_income) THEN Num(0)
                       ELSE noninterest_income
        non_int_exp == IF _is_invalid(noninterest_expense) THEN Num(0)
                       ELSE noninterest_expense
    IN Sub(Add(nii, non_int_inc), non_int_exp)

earnings_per_share(net_income, shares_outstanding) ==
    IF _is_invalid(net_income) \/ _is_invalid(shares_outstanding) THEN NaN
    ELSE IF _is_zero(shares_outstanding) THEN NaN
    ELSE Div(net_income, shares_outstanding)

book_value_per_share(total_equity, shares_outstanding) ==
    IF _is_invalid(total_equity) \/ _is_invalid(shares_outstanding) THEN NaN
    ELSE IF _is_zero(shares_outstanding) THEN NaN
    ELSE Div(total_equity, shares_outstanding)

\* (mutant) a missing goodwill or intangible_assets makes the result NaN
tangible_book_value_per_share_strict(total_equity, goodwill, intangible_assets, shares_outstanding) ==
    IF \/ _is_invalid(total_equity) \/ _is_invalid(shares_outstanding)
       \/ _is_invalid(goodwill) \/ _is_invalid(intangible_assets)
    THEN NaN
    ELSE IF _is_zero(shares_outstanding) THEN NaN
    ELSE Div(Sub(Sub(total_equity, goodwill), intangible_assets), shares_outstanding)

tangible_book_value_per_share(total_equity, goodwill, intangible_assets, shares_outstanding) ==
    IF _is_invalid(total_equity) \/ _is_invalid(shares_outstanding) THEN NaN
    ELSE IF _is_zero(shares_outstanding) THEN NaN
    ELSE LET gw == IF _is_invalid(goodwill) THEN Num(0) ELSE goodwill
             intang == IF _is_invalid(intangible_assets) THEN Num(0)
                       ELSE intangible_assets
             tangible_equity == Sub(Sub(total_equity, gw), intang)
         IN Div(tangible_equity, shares_outstanding)

price_to_book(stock_price, bvps) ==
    IF _is_invalid(stock_price) \/ _is_invalid(bvps) THEN NaN
    ELSE IF _is_zero(bvps) THEN NaN
    ELSE Div(stock_price, bvps)

price_to_earnings(stock_price, eps_ttm) ==
    IF _is_invalid(stock_price) \/ _is_invalid(eps_ttm) THEN NaN
    ELSE IF _is_zero(eps_ttm) THEN NaN
    ELSE Div(stock_price, eps_ttm)

price_to_tangible_book(stock_price, tbvps) ==
    IF _is_invalid(stock_price) \/ _is_invalid(tbvps) THEN NaN
    ELSE IF _is_zero(tbvps) THEN NaN
    ELSE Div(stock_price, tbvps)

equity_to_assets(total_equity, total_assets) ==
    IF _is_invalid(total_equity) \/ _is_invalid(total_assets) THEN NaN
    ELSE IF _is_zero(total_assets) THEN NaN
    ELSE Div(total_equity, total_assets)

tangible_equity_ratio(total_equity, goodwill, intangible_assets, total_assets) ==
    IF _is_invalid(total_equity) \/ _is_invalid(total_assets) THEN NaN
    ELSE LET gw == IF _is_invalid(goodwill) THEN Num(0) ELSE goodwill
             intang == IF _is_invalid(intangible_assets) THEN Num(0)
                       ELSE intangible_assets
             tangible_equity == Sub(Sub(total_equity, gw), intang)
             tangible_assets == Sub(Sub(total_assets, gw), intang)
         IN IF _is_zero(tangible_assets) THEN NaN
            ELSE Div(tangible_equity, tangible_assets)

leverage_ratio(total_assets, total_equity) ==
    IF _is_invalid(total_assets) \/ _is_invalid(total_equity) THEN NaN
    ELSE IF _is_zero(total_equity) THEN NaN
    ELSE Div(total_assets, total_equity)

allowance_coverage_ratio(allowance_for_loan_losses, loans_net) ==
    IF _is_invalid(allowance_for_loan_losses) \/ _is_invalid(loans_net) THEN NaN
    ELSE IF _is_zero(loans_net) THEN NaN
    ELSE LET gross_loans == Add(loans_net, allowance_for_loan_losses)
         IN IF _is_zero(gross_loans) THEN NaN
            ELSE Div(allowance_for_loan_losses, gross_loans)

\* (mutant) annualization by a fixed 4, whatever periods_per_year is
net_charge_off_ratio_times4(provision_for_credit_losses, loans_net, annualize, periods_per_year) ==
    IF _is_invalid(provision_for_credit_losses) \/ _is_invalid(loans_net) THEN NaN
    ELSE IF _is_zero(loans_net) THEN NaN
    ELSE LET ratio == Div(provision_for_credit_losses, loans_net)
         IN IF annualize THEN Scale(ratio, 4) ELSE ratio

net_charge_off_ratio(provision_for_credit_losses, loans_net, annualize, periods_per_year) ==
    IF _is_invalid(provision_for_credit_losses) \/ _is_invalid(loans_net) THEN NaN
    ELSE IF _is_zero(loans_net) THEN NaN
    ELSE LET ratio == Div(provision_for_credit_losses, loans_net)
         IN IF annualize THEN Scale(ratio, periods_per_year) ELSE ratio

loan_to_deposit_ratio(loans_net, total_deposits) ==
    IF _is_invalid(loans_net) \/ _is_invalid(total_deposits) THEN NaN
    ELSE IF _is_zero(total_deposits) THEN NaN
    ELSE Div(loans_net, total_deposits)

yoy_growth(current_value, prior_year_value) ==
    IF _is_invalid(current_value) \/ _is_invalid(prior_year_value) THEN NaN
    ELSE IF _is_zero(prior_year_value) THEN NaN
    ELSE Div(Sub(current_value, prior_year_value), AbsVal(prior_year_value))

qoq_growth(current_value, prior_quarter_value) ==
    IF _is_invalid(current_value) \/ _is_invalid(prior_quarter_value) THEN NaN
    ELSE IF _is_zero(prior_quarter_value) THEN NaN
    ELSE Div(Sub(current_value, prior_quarter_value), AbsVal(prior_quarter_value))

\* (mutant) annualization off unless it is asked for
annualize_never == FALSE

\* defaults of the parameters annualize and periods_per_year
annualize_default == TRUE
periods_per_year_default == 4

\* a field the row (pd.Series) does not have
Absent == [k |-> "absent", n |-> 0, d |-> 1]

\* get(col) of calculate_all_kpis: row.get(col, np.nan)
get(row, col) == IF row[col].k = "absent" THEN NaN ELSE row[col]

\* bool(value): NaN and every non-zero number are true, 0 and None are false
Truthy(value) ==
    \/ value.k = "nan"
    \/ value.k = "num" /\ value.n # 0

\* Python's  a or b
Or(a, b) == IF Truthy(a) THEN a ELSE b

\* the share count of the per-share KPIs
Shares(row) == Or(get(row, "shares_outstanding"), get(row, "weighted_avg_shares_basic"))

calculate_all_kpis(row) ==
    LET shares == Shares(row)
    IN [roe |-> return_on_equity(get(row, "net_income"), get(row, "total_equity"),
                                 annualize_default, periods_per_year_default),
        roa |-> return_on_assets(get(row, "net_income"), get(row, "total_assets"),
                                 annualize_default, periods_per_year_default),
        nim |-> net_interest_margin(get(row, "net_interest_income"),
                                    get(row, "total_assets"),
                                    annualize_default, periods_per_year_default),
        efficiency_ratio |-> efficiency_ratio(get(row, "noninterest_expense"),
                                              get(row, "total_revenue")),
        ppnr |-> pre_provision_net_revenue(get(row, "net_interest_income"),
                                           get(row, "noninterest_income"),
                                           get(row, "noninterest_expense")),
        eps |-> earnings_per_share(get(row, "net_income"), shares),
        bvps |-> book_value_per_share(get(row, "total_equity"), shares),
        tbvps |-> tangible_book_value_per_share(get(row, "total_equity"),
                                                get(row, "goodwill"),
                                                get(row, "intangible_assets"), shares),
        equity_to_assets |-> equity_to_assets(get(row, "total_equity"),
                                              get(row, "total_assets")),
        tce_ratio |-> tangible_equity_ratio(get(row, "total_equity"),
                                            get(row, "goodwill"),
                                            get(row, "intangible_assets"),
                                            get(row, "total_assets")),
        leverage |-> leverage_ratio(get(row, "total_assets"), get(row, "total_equity")),
        ldr |-> loan_to_deposit_ratio(get(row, "loans_net"), get(row, "total_deposits")),
        allowance_coverage |->
            allowance_coverage_ratio(get(row, "allowance_for_loan_losses"),
                                     get(row, "loans_net"))]

-----------------------------------------------------------------------------
(* Data quality checks (banklab/quality/checks.py).  A panel is a sequence  *)
(* of row records; a cell that a row record leaves Absent is NaN in the     *)
(* DataFrame when another row has the column, and the column does not exist *)
(* when no row has it.  A period string f"{fiscal_year}-{fiscal_period}"    *)
(* is the pair <<fiscal_year, fiscal_period>>; a message is its literal     *)
(* text, the numbers formatted into it are in the warning's details.        *)

Severity == [INFO |-> "info", WARNING |-> "warning", ERROR |-> "error"]

QualityWarning(check_name, severity, ticker, period, message, details) ==
    [check_name |-> check_name, severity |-> severity, ticker |-> ticker,
     period |-> period, message |-> message, details |-> details]

\* QualityReport()
QualityReport == [warnings |-> <<>>, checks_run |-> <<>>]

\* (mutant) the warnings added replace those of the report
add_replacing(rep, warnings) == [rep EXCEPT !.warnings = warnings]

\* QualityReport.add, for a run of warnings
add(rep, warnings) == [rep EXCEPT !.warnings = @ \o warnings]

\* QualityReport.has_errors
has_errors(rep) ==
    \E i \in 1..Len(rep.warnings) : rep.warnings[i].severity = Severity.ERROR

\* report.checks_run.append(name)
Ran(rep, name) == [rep EXCEPT !.checks_run = Append(@, name)]

KeyColumns == {"ticker", "fiscal_year", "fiscal_period"}

ValueColumns ==
    {"total_assets", "total_liabilities", "total_equity", "total_deposits",
     "loans_net", "shares_outstanding", "net_income", "leverage", "roe", "roa",
     "nim"}

\* df.columns
columns(d) ==
    (IF d = <<>> THEN {} ELSE KeyColumns)
    \cup {c \in ValueColumns : \E i \in 1..Len(d) : d[i][c] # Absent}

\* df.iterrows(): the rows with the cells of the frame
iterrows(d) ==
    [i \in 1..Len(d) |->
        [c \in DOMAIN d[i] |->
            IF c \in ValueColumns /\ c \in columns(d) /\ d[i][c] = Absent
            THEN NaN ELSE d[i][c]]]

\* row.get(col): None for a column the frame does not have
RowGet(row, col) == IF row[col] = Absent THEN None ELSE row[col]

\* pd.isna
isna(value) == value.k \in {"nan", "none"}

\* a < b of two numbers
Less(a, b) == a.n * b.d < b.n * a.d

Period(row) == <<row.fiscal_year, row.fiscal_period>>

tolerance_default == Frac(1, 100)

\* (mutant) a difference of exactly the tolerance is flagged too
UnbalancedInclusive(row, tolerance) ==
    LET assets == RowGet(row, "total_assets")
        liabilities == RowGet(row, "total_liabilities")
        equity == RowGet(row, "total_equity")
    IN /\ ~(isna(assets) \/ isna(liabilities) \/ isna(equity))
       /\ assets.n # 0
       /\ ~Less(Div(AbsVal(Sub(assets, Add(liabilities, equity))), AbsVal(assets)),
                tolerance)

\* the row passes the two `continue`s and rel_diff > tolerance
Unbalanced(row, tolerance) ==
    LET assets == RowGet(row, "total_assets")
        liabilities == RowGet(row, "total_liabilities")
        equity == RowGet(row, "total_equity")
    IN /\ ~(isna(assets) \/ isna(liabilities) \/ isna(equity))
       /\ assets.n # 0
       /\ LET expected == Add(liabilities, equity)
              diff == AbsVal(Sub(assets, expected))
              rel_diff == Div(diff, AbsVal(assets))
          IN Less(tolerance, rel_diff)

BalanceWarning(row) ==
    LET expected == Add(row.total_liabilities, row.total_equity)
        diff == AbsVal(Sub(row.total_assets, expected))
    IN QualityWarning("balance_sheet_identity", Severity.WARNING, row.ticker,
                      Period(row), <<"Balance sheet doesn't balance">>,
                      [diff |-> diff, rel_diff |-> Div(diff, AbsVal(row.total_assets))])

check_balance_sheet_identity(d, rep, tolerance) ==
    LET r1 == Ran(rep, "balance_sheet_identity")
        required == {"total_assets", "total_liabilities", "total_equity"}
        IsUnbalanced(row) == Unbalanced(row, tolerance)
        flagged == SelectSeq(iterrows(d), IsUnbalanced)
    IN IF ~(required \subseteq columns(d)) THEN r1
       ELSE add(r1, [i \in 1..Len(flagged) |-> BalanceWarning(flagged[i])])

positive_cols ==
    <<"total_assets", "total_liabilities", "total_equity", "total_deposits",
      "loans_net", "shares_outstanding">>

\* (mutant) zero is flagged too
IsNegativeOrZero(val) == ~isna(val) /\ val.n <= 0

\* pd.notna(val) and val < 0
IsNegative(val) == ~isna(val) /\ val.n < 0

NegativeWarning(row, col) ==
    QualityWarning("positive_values", Severity.ERROR, row.ticker, Period(row),
                   <<col, "is negative">>, [column |-> col, value |-> row[col]])

\* (mutant) the check is skipped on a report that already has errors
check_positive_values_unless_errors(d, rep) ==
    LET r1 == Ran(rep, "positive_values")
        ColWarnings(col) ==
            IF col \notin columns(d) THEN <<>>
            ELSE LET Negative(row) == IsNegative(RowGet(row, col))
                     flagged == SelectSeq(iterrows(d), Negative)
                 IN [i \in 1..Len(flagged) |-> NegativeWarning(flagged[i], col)]
    IN IF has_errors(rep) THEN r1
       ELSE add(r1, Flatten([j \in 1..Len(positive_cols) |->
                                ColWarnings(positive_cols[j])]))

check_positive_values(d, rep) ==
    LET r1 == Ran(rep, "positive_values")
        ColWarnings(col) ==
            IF col \notin columns(d) THEN <<>>
            ELSE LET Negative(row) == IsNegative(RowGet(row, col))
                     flagged == SelectSeq(iterrows(d), Negative)
                 IN [i \in 1..Len(flagged) |-> NegativeWarning(flagged[i], col)]
    IN add(r1, Flatten([j \in 1..Len(positive_cols) |->
                           ColWarnings(positive_cols[j])]))

ratio_bounds ==
    <<[col |-> "leverage", low |-> Num(4), high |-> Num(20)],
      [col |-> "roe", low |-> Frac(-1, 2), high |-> Frac(1, 2)],
      [col |-> "roa", low |-> Frac(-1, 10), high |-> Frac(1, 10)]>>

RatioWarning(row, col, text) ==
    QualityWarning("reasonable_ratios", Severity.WARNING, row.ticker, Period(row),
                   <<col, text>>, [column |-> col, value |-> row[col]])

\* (mutant) a value on a bound is flagged too
RowRatioWarningsInclusive(row, bound) ==
    LET val == RowGet(row, bound.col)
    IN IF isna(val) THEN <<>>
       ELSE IF ~Less(bound.low, val)
            THEN <<RatioWarning(row, bound.col, "is unusually low")>>
       ELSE IF ~Less(val, bound.high)
            THEN <<RatioWarning(row, bound.col, "is unusually high")>>
       ELSE <<>>

\* the body of the loop over the rows: at most one warning
RowRatioWarnings(row, bound) ==
    LET val == RowGet(row, bound.col)
    IN IF isna(val) THEN <<>>
       ELSE IF Less(val, bound.low)
            THEN <<RatioWarning(row, bound.col, "is unusually low")>>
       ELSE IF Less(bound.high, val)
            THEN <<RatioWarning(row, bound.col, "is unusually high")>>
       ELSE <<>>

check_reasonable_ratios(d, rep) ==
    LET r1 == Ran(rep, "reasonable_ratios")
        rows == iterrows(d)
        ColWarnings(bound) ==
            IF bound.col \notin columns(d) THEN <<>>
            ELSE Flatten([i \in 1..Len(rows) |-> RowRatioWarnings(rows[i], bound)])
    IN add(r1, Flatten([j \in 1..Len(ratio_bounds) |-> ColWarnings(ratio_bounds[j])]))

max_change_default == Frac(1, 2)

check_temporal_consistency(d, rep, max_change) == Ran(rep, "temporal_consistency")

required_items_default == <<"total_assets", "total_equity", "net_income">>

MissingItemWarning(ticker, item) ==
    QualityWarning("completeness", Severity.ERROR, ticker, <<"all">>,
                   <<item, "Missing required line item">>, [item |-> item])

check_completeness(d, rep, required_items) ==
    LET r1 == Ran(rep, "completeness")
        tickers == IF "ticker" \in columns(d)
                   THEN unique([i \in 1..Len(d) |-> d[i].ticker])
                   ELSE <<>>
        NoColumn(item) == item \notin columns(d)
        missing == SelectSeq(required_items, NoColumn)
        TickerWarnings(ticker) ==
            [i \in 1..Len(missing) |-> MissingItemWarning(ticker, missing[i])]
    IN add(r1, Flatten([j \in 1..Len(tickers) |-> TickerWarnings(tickers[j])]))

\* (mutant) the remaining checks are skipped once errors were found
run_all_checks_until_errors(d, include) ==
    LET r1 == check_balance_sheet_identity(d, QualityReport, tolerance_default)
        r2 == check_positive_values(d, r1)
        r3 == check_temporal_consistency(d, r2, max_change_default)
        r4 == check_completeness(d, r3, required_items_default)
    IN IF has_errors(r2) THEN r2
       ELSE IF include THEN check_reasonable_ratios(d, r4) ELSE r4

run_all_checks(d, include) ==
    LET r1 == check_balance_sheet_identity(d, QualityReport, tolerance_default)
        r2 == check_positive_values(d, r1)
        r3 == check_temporal_consistency(d, r2, max_change_default)
        r4 == check_completeness(d, r3, required_items_default)
    IN IF include THEN check_reasonable_ratios(d, r4) ELSE r4

-----------------------------------------------------------------------------
(* Wide projection and the fundamentals pipeline                            *)
(* (XBRLNormalizer.to_wide_format, banklab/process/fundamentals.py).  A     *)
(* long frame is the sequence of its rows; the frame without rows is        *)
(* pd.DataFrame(), which has no columns.  A wide frame has the set of its   *)
(* line-item columns and one record per row, the line-item cells in         *)
(* "cells".  An operation that can end with an exception returns "raised".  *)

NoFrame == [raised |-> FALSE, columns |-> {}, rows |-> <<>>]

\* index of pivot_table
KeyOf(r) == <<r.ticker, r.fiscal_year, r.fiscal_period, r.date>>

\* the values of one group of groupby(index + columns), in row order
GroupValues(normalized_df, key, item) ==
    LET ingroup(r) == KeyOf(r) = key /\ r.line_item = item
        group == SelectSeq(normalized_df, ingroup)
    IN [i \in 1..Len(group) |-> group[i].value]

\* (mutant) a cell takes the values of its key under every line item
KeyValues(normalized_df, key, item) ==
    LET inkey(r) == KeyOf(r) = key
        group == SelectSeq(normalized_df, inkey)
    IN [i \in 1..Len(group) |-> group[i].value]

\* aggfunc="first": the first value of the group that is not null
RECURSIVE agg_first(_)
agg_first(values) ==
    IF values = <<>> THEN NaN
    ELSE IF isna(Head(values)) THEN agg_first(Tail(values))
    ELSE Head(values)

\* (mutant) aggfunc="last"
RECURSIVE agg_last(_)
agg_last(values) ==
    IF values = <<>> THEN NaN
    ELSE IF isna(values[Len(values)]) THEN agg_last(SubSeq(values, 1, Len(values) - 1))
    ELSE values[Len(values)]

\* sort order of the rows of the pivot: the index, compared as sort_values does
KeyLess(a, b) ==
    LET x == <<TickerRank[a[1]], a[2], PeriodRank[a[3]], a[4]>>
        y == <<TickerRank[b[1]], b[2], PeriodRank[b[3]], b[4]>>
    IN \E i \in 1..4 : x[i] < y[i] /\ \A j \in 1..(i - 1) : x[j] = y[j]

RECURSIVE sort_index(_)
sort_index(S) ==
    IF S = {} THEN <<>>
    ELSE LET least == CHOOSE k \in S : \A q \in S \ {k} : KeyLess(k, q)
         IN <<least>> \o sort_index(S \ {least})

\* DataFrame.pivot_table(index=[ticker, fiscal_year, fiscal_period, date],
\* columns="line_item", values="value", aggfunc=...).reset_index(): KeyError
\* on a frame without the column "value"; groups whose aggregate is null are
\* dropped, and with them the rows and columns that hold nothing else
pivot_table(normalized_df, by, aggfunc) ==
    LET n == Len(normalized_df)
        values(key, item) == IF by = "line_item"
                             THEN GroupValues(normalized_df, key, item)
                             ELSE KeyValues(normalized_df, key, item)
        agged(key, item) == IF aggfunc = "first" THEN agg_first(values(key, item))
                            ELSE agg_last(values(key, item))
        pairs == {<<KeyOf(normalized_df[i]), normalized_df[i].line_item>> : i \in 1..n}
        kept == {p \in pairs : ~isna(agged(p[1], p[2]))}
        keys == sort_index({p[1] : p \in kept})
        items == {p[2] : p \in kept}
    IN IF normalized_df = <<>> THEN [NoFrame EXCEPT !.raised = TRUE]
       ELSE [raised |-> FALSE, columns |-> items,
             rows |-> [j \in 1..Len(keys) |->
                 [ticker |-> keys[j][1], fiscal_year |-> keys[j][2],
                  fiscal_period |-> keys[j][3], date |-> keys[j][4],
                  cells |-> [c \in items |->
                      IF <<keys[j], c>> \in kept THEN agged(keys[j], c) ELSE NaN]]]]

\* (mutant) the last value of a group instead of the first
to_wide_format_last(normalized_df) == pivot_table(normalized_df, "line_item", "last")

\* (mutant) the cells of a row filled without regard to the line item
to_wide_format_any_item(normalized_df) == pivot_table(normalized_df, "index", "first")

to_wide_format(normalized_df) == pivot_table(normalized_df, "line_item", "first")

\* the columns calculate_all_kpis asks a row for
InputColumns ==
    {"net_income", "total_equity", "total_assets", "net_interest_income",
     "noninterest_expense", "noninterest_income", "total_revenue",
     "shares_outstanding", "weighted_avg_shares_basic", "goodwill",
     "intangible_assets", "loans_net", "total_deposits",
     "allowance_for_loan_losses"}

\* wide.iterrows(): row i as the pd.Series calculate_all_kpis reads
Series(frame, i) ==
    [c \in InputColumns |->
        IF c \in frame.columns THEN frame.rows[i].cells[c] ELSE Absent]

\* the keys of the dict calculate_all_kpis returns, in insertion order
kpi_names ==
    <<"roe", "roa", "nim", "efficiency_ratio", "ppnr", "eps", "bvps", "tbvps",
      "equity_to_assets", "tce_ratio", "leverage", "ldr", "allowance_coverage">>

\* FundamentalsPipeline._calculate_kpis: one record per row and KPI that is
\* not null; kpis_df["kpi_name"] raises KeyError when there is no record
_calculate_kpis(frame) ==
    LET records(i) ==
            LET row == frame.rows[i]
                kpis == calculate_all_kpis(Series(frame, i))
                notna(name) == ~isna(kpis[name])
                names == SelectSeq(kpi_names, notna)
            IN [j \in 1..Len(names) |->
                   [ticker |-> row.ticker, fiscal_year |-> row.fiscal_year,
                    fiscal_period |-> row.fiscal_period, date |-> row.date,
                    kpi_name |-> names[j], value |-> kpis[names[j]]]]
        all == Flatten([i \in 1..Len(frame.rows) |-> records(i)])
    IN [raised |-> all = <<>>, rows |-> all]

\* run, step 4: wide.merge(kpis.pivot(index=[ticker, fiscal_year,
\* fiscal_period], columns="kpi_name", values="value").reset_index(),
\* how="left"); pivot raises ValueError on a duplicate index entry
merge(frame, kpis) ==
    LET n == Len(kpis)
        index(r) == <<r.ticker, r.fiscal_year, r.fiscal_period>>
        duplicate == \E i, j \in 1..n :
                        /\ i < j
                        /\ index(kpis[i]) = index(kpis[j])
                        /\ kpis[i].kpi_name = kpis[j].kpi_name
        cell(row, c) ==
            IF c \in frame.columns
            THEN (IF isna(row.cells[c]) THEN Absent ELSE row.cells[c])
            ELSE IF \E i \in 1..n : index(kpis[i]) = index(row) /\ kpis[i].kpi_name = c
            THEN LET i == CHOOSE i \in 1..n :
                            index(kpis[i]) = index(row) /\ kpis[i].kpi_name = c
                 IN kpis[i].value
            ELSE Absent
    IN [raised |-> duplicate,
        rows |-> [j \in 1..Len(frame.rows) |->
            [c \in KeyColumns \cup ValueColumns |->
                IF c \in KeyColumns THEN frame.rows[j][c]
                ELSE cell(frame.rows[j], c)]]]

report_columns == <<"check_name", "severity", "ticker", "period", "message">>

\* QualityReport.to_dataframe: a frame without columns for an empty report
to_dataframe(rep) ==
    IF rep.warnings = <<>> THEN [columns |-> <<>>, rows |-> <<>>]
    ELSE [columns |-> report_columns,
          rows |-> [i \in 1..Len(rep.warnings) |->
                       [c \in Range(report_columns) |-> rep.warnings[i][c]]]]

\* DataFrame.to_csv(path, index=False): the header line and one line per row
to_csv(d) ==
    [header |-> d.columns,
     lines |-> [i \in 1..Len(d.rows) |->
                   [j \in 1..Len(d.columns) |-> d.rows[i][d.columns[j]]]]]

\* (mutant) the frame of the report written as it is
_save_quality_report_as_is(rep) == to_csv(to_dataframe(rep))

\* FundamentalsPipeline._save_quality_report: the content of quality_report.csv
_save_quality_report(rep) ==
    LET report_df == to_dataframe(rep)
    IN IF Len(report_df.rows) > 0 THEN to_csv(report_df)
       ELSE to_csv([columns |-> report_columns, rows |-> <<>>])

NoCsv == [header |-> <<>>, lines |-> <<>>]

\* nothing written yet
NoOutputs ==
    [written |-> <<>>, raised |-> FALSE, fundamentals_quarterly |-> <<>>,
     fundamentals_quarterly_wide |-> NoFrame, kpis_quarterly |-> <<>>,
     quality_report |-> NoCsv, report |-> QualityReport]

\* FundamentalsPipeline.run, from the values its steps computed: the
\* artifacts in the order they are written; an exception of a step ends the
\* run with what was written before it
run(normalized, frame, kpis, wide_with_kpis, quality_report) ==
    LET o1 == [NoOutputs EXCEPT !.written = <<"fundamentals_quarterly">>,
                                !.fundamentals_quarterly = normalized.rows]
        o2 == [o1 EXCEPT !.written = Append(@, "fundamentals_quarterly_wide"),
                         !.fundamentals_quarterly_wide = frame]
        o3 == [o2 EXCEPT !.written = Append(@, "kpis_quarterly"),
                         !.kpis_quarterly = kpis.rows]
        o4 == [o3 EXCEPT !.written = Append(@, "quality_report"),
                         !.quality_report = _save_quality_report(quality_report),
                         !.report = quality_report]
        o5 == [o4 EXCEPT !.written = Append(@, "data_dictionary")]
    IN IF normalized.raised THEN [NoOutputs EXCEPT !.raised = TRUE]
       ELSE IF frame.raised THEN [o1 EXCEPT !.raised = TRUE]
       ELSE IF kpis.raised THEN [o2 EXCEPT !.raised = TRUE]
       ELSE IF wide_with_kpis.raised THEN [o3 EXCEPT !.raised = TRUE]
       ELSE o5

-----------------------------------------------------------------------------
(* Cache and SEC loader (banklab/utils/cache.py, banklab/ingest/sec.py).   *)
(* A cache key, a path and a URL are sequences of pieces of text, a        *)
(* character that get_cache_path replaces being a piece of its own.  A str *)
(* is the sequence of its code points, bytes are the sequence of their     *)
(* values; a value handed to or returned by the cache carries its type.    *)

Str(text) == [type |-> "str", data |-> text]
Bytes(bytes) == [type |-> "bytes", data |-> bytes]
NoContent == [type |-> "None", data |-> <<>>]
UnicodeDecodeError == [type |-> "UnicodeDecodeError", data |-> <<>>]

\* the disk: the files of the cache directory and the entries of the manifest
NoFiles == [cache |-> {}, manifest |-> {}]

\* (mutant) every character kept
get_cache_path_verbatim(key) == key

\* CacheManager.get_cache_path: '/', ':' and '?' become '_'
get_cache_path(key) ==
    [i \in 1..Len(key) |-> IF key[i] \in {"/", ":", "?"} THEN "_" ELSE key[i]]

\* Path.exists, and the bytes of an existing file
exists(fs, path) == \E f \in fs.cache : f.path = path
read_bytes(fs, path) == (CHOOSE f \in fs.cache : f.path = path).content

\* str.encode("utf-8"), for code points below 2048
encode(text) ==
    Flatten([i \in 1..Len(text) |->
        IF text[i] < 128 THEN <<text[i]>>
        ELSE <<192 + (text[i] \div 64), 128 + (text[i] % 64)>>])

\* bytes.decode("utf-8"): the text, or UnicodeDecodeError
RECURSIVE decode(_)
decode(bytes) ==
    IF bytes = <<>> THEN Str(<<>>)
    ELSE LET b == Head(bytes)
             two == /\ b >= 194 /\ b < 224 /\ Len(bytes) >= 2
                    /\ bytes[2] >= 128 /\ bytes[2] < 192
             rest == IF two THEN decode(Tail(Tail(bytes))) ELSE decode(Tail(bytes))
             point == IF two THEN (b - 192) * 64 + (bytes[2] - 128) ELSE b
         IN IF (b >= 128 /\ ~two) \/ rest = UnicodeDecodeError
            THEN UnicodeDecodeError
            ELSE Str(<<point>> \o rest.data)

\* CacheManager.has_cached
has_cached(fs, key) == exists(fs, get_cache_path(key))

\* CacheManager.store: write_text or write_bytes, then manifest.record, which
\* replaces the entry of the key (the hash stands for the bytes it digests)
store(fs, key, content, source_url) ==
    LET cache_path == get_cache_path(key)
        bytes == IF content.type = "str" THEN encode(content.data) ELSE content.data
    IN [cache |-> {f \in fs.cache : f.path # cache_path}
                  \cup {[path |-> cache_path, content |-> bytes]},
        manifest |-> {e \in fs.manifest : e.file_key # key}
                     \cup {[file_key |-> key, source_url |-> source_url,
                            file_hash |-> bytes, local_path |-> cache_path]}]

\* (mutant) nothing is ever found in the cache
load_text_miss(fs, key) == NoContent

\* CacheManager.load_text
load_text(fs, key) ==
    LET cache_path == get_cache_path(key)
    IN IF exists(fs, cache_path) THEN decode(read_bytes(fs, cache_path))
       ELSE NoContent

\* CacheManager.load_bytes
load_bytes(fs, key) ==
    LET cache_path == get_cache_path(key)
    IN IF exists(fs, cache_path) THEN Bytes(read_bytes(fs, cache_path))
       ELSE NoContent

\* one entry of the log of calls
Call(op, key, arg, result) == [op |-> op, key |-> key, arg |-> arg, result |-> result]

SEC_TICKERS_URL == <<"https", ":", "/", "/", "www.sec.gov", "/", "files", "/", "company_tickers.json">>

\* SEC_COMPANY_FACTS_URL.format(cik=cik)
SEC_COMPANY_FACTS_URL(cik) ==
    <<"https", ":", "/", "/", "data.sec.gov", "/", "api", "/", "xbrl", "/",
      "companyfacts", "/", "CIK", cik, ".json">>

\* the code points of the ticker symbols, and ticker.upper()
chars == [JPM |-> <<74, 80, 77>>, BAC |-> <<66, 65, 67>>]
upper == [jpm |-> "JPM", JPM |-> "JPM", BAC |-> "BAC"]

\* str(entry["cik_str"]).zfill(10)
zfill(cik_str) == IF cik_str = 1 THEN "0000000001" ELSE "0000000002"

\* json.dumps and json.loads of the ticker file: a sequence of entries, each
\* the three letters of the ticker and the digit of its CIK
dumps_tickers(data) ==
    Flatten([i \in 1..Len(data) |-> chars[data[i].ticker] \o <<48 + data[i].cik_str>>])

loads_tickers(text) ==
    [i \in 1..(Len(text) \div 4) |->
        [ticker |-> CHOOSE t \in DOMAIN chars :
                        chars[t] = SubSeq(text, 4 * i - 3, 4 * i - 1),
         cik_str |-> text[4 * i] - 48]]

\* json.dumps and json.loads of company facts: {"cik": c, "facts": v}, each
\* a digit
dumps_facts(data) == <<123, 48 + data.cik, 44, 48 + data.facts, 125>>
loads_facts(text) == [cik |-> text[2] - 48, facts |-> text[4] - 48]

\* what the server may answer: the ticker file with or without BAC, and two
\* versions of the facts of a company
CompanyTickers ==
    {<<[ticker |-> "JPM", cik_str |-> 1]>>,
     <<[ticker |-> "JPM", cik_str |-> 1], [ticker |-> "BAC", cik_str |-> 2]>>}

CompanyFacts(cik) == {[cik |-> IF cik = "0000000001" THEN 1 ELSE 2, facts |-> v] : v \in 1..2}

NotLoaded == <<"None">>

\* SECLoader.get_ticker_cik_map with the server's answer to a download:
\* the map, the disk and the requests made
get_ticker_cik_map(memo, fs, answer) ==
    LET cache_key == <<"company_tickers.json">>
        cached == load_text(fs, cache_key)
        hit == cached.type = "str" /\ cached.data # <<>>
        data == IF hit THEN loads_tickers(cached.data) ELSE answer
        map == {<<data[i].ticker, zfill(data[i].cik_str)>> : i \in 1..Len(data)}
    IN IF memo # NotLoaded THEN [map |-> memo[2], fs |-> fs, requests |-> <<>>]
       ELSE [map |-> map,
             fs |-> IF hit THEN fs
                    ELSE store(fs, cache_key, Str(dumps_tickers(data)), SEC_TICKERS_URL),
             requests |-> IF hit THEN <<>>
                          ELSE <<Call("GET", SEC_TICKERS_URL, NoContent, data)>>]

\* SECLoader.get_company_facts(ticker) with the server's answers: the data or
\* ValueError, the map kept in memory, the disk and the requests made
get_company_facts(memo, fs, ticker, tickers_answer, facts_answer) ==
    LET m == get_ticker_cik_map(memo, fs, tickers_answer)
        known == \E p \in m.map : p[1] = upper[ticker]
        cik == (CHOOSE p \in m.map : p[1] = upper[ticker])[2]
        cache_key == <<"companyfacts_", ticker, "_", cik, ".json">>
        cached == load_text(m.fs, cache_key)
        hit == cached.type = "str" /\ cached.data # <<>>
        url == SEC_COMPANY_FACTS_URL(cik)
        data == facts_answer[cik]
    IN IF ~known
       THEN [raised |-> TRUE, data |-> <<>>, memo |-> <<"map", m.map>>, fs |-> m.fs,
             requests |-> m.requests]
       ELSE IF hit
       THEN [raised |-> FALSE, data |-> loads_facts(cached.data),
             memo |-> <<"map", m.map>>, fs |-> m.fs, requests |-> m.requests]
       ELSE [raised |-> FALSE, data |-> data, memo |-> <<"map", m.map>>,
             fs |-> store(m.fs, cache_key, Str(dumps_facts(data)), url),
             requests |-> Append(m.requests, Call("GET", url, NoContent, data))]

-----------------------------------------------------------------------------
(* Raw facts *)

Fact(ticker, fy, fp, tag, unit, form, date, filed, value) ==
    [ticker |-> ticker, fy |-> fy, fp |-> fp, tag |-> tag, unit |-> unit,
     form |-> form, date |-> date, filed |-> filed, value |-> value]

\* facts of two entities, two periods and two concepts, one concept under
\* two of its tags, and one tag that no mapping lists
KeyFacts ==
    {Fact(t, 2015, fp, tag, "USD", "10-K", 1, 1, Num(100)) :
        t \in {"JPM", "BAC"}, fp \in {"Q1", "FY"},
        tag \in {"us-gaap:Assets", "us-gaap:NetIncomeLoss", "us-gaap:ProfitLoss",
                 "dei:EntityPublicFloat"}}

\* duplicate reports of one concept and period: every preferred form and 8-K
DedupFacts ==
    {Fact("JPM", 2015, "Q1", "us-gaap:Assets", "USD", form, dt, dt, Num(v)) :
        form \in {"10-K", "10-Q", "10-K/A", "10-Q/A", "8-K"},
        dt \in 1..2, v \in {100, 200}}

\* restatements: the period-end date ("date") and the filing date of a report
\* vary independently
RestateFacts ==
    {Fact("JPM", 2015, "Q1", "us-gaap:Assets", "USD", "10-K", dt, fl, Num(v)) :
        dt \in 1..2, fl \in 1..2, v \in {100, 200}}

\* every unit under the first tag of a USD, a shares and a pure mapping
UnitFacts ==
    {Fact("JPM", 2015, "Q1", tag, unit, "10-K", 1, 1, Num(v)) :
        tag \in {"us-gaap:Assets", "us-gaap:CommonStockSharesOutstanding",
                 "us-gaap:TierOneRiskBasedCapitalToRiskWeightedAssets"},
        unit \in {"USD", "shares", "pure"}, v \in {100, 999}}

\* the three tags of net_income, with and without a usable value
TagFacts ==
    {Fact("JPM", 2015, "Q1", tag, "USD", "10-K", 1, 1, v) :
        tag \in {"us-gaap:NetIncomeLoss", "us-gaap:ProfitLoss",
                 "us-gaap:NetIncomeLossAvailableToCommonStockholdersBasic"},
        v \in {NaN, Num(100), Num(200)}}

\* fiscal years on both sides of min_year, a standard and a non-standard
\* period marker
PeriodFacts ==
    {Fact("JPM", fy, fp, tag, "USD", "10-K", dt, dt, Num(v)) :
        fy \in {2014, 2015}, fp \in {"Q1", "H1"},
        tag \in {"us-gaap:NetIncomeLoss", "us-gaap:ProfitLoss"},
        dt \in 1..2, v \in {100, 200}}

IdleKpi == [fn |-> "none", args |-> <<>>, annualize |-> FALSE, periods_per_year |-> 1]

Init ==
    /\ raw_facts = <<>>
    /\ output = <<>>
    /\ raised = FALSE
    /\ pc = "input"
    /\ kpi_call = IdleKpi
    /\ kpi_result = NaN
    /\ panel = <<>>
    /\ report = QualityReport
    /\ include_kpi_checks = "not called"
    /\ wide = NoFrame
    /\ outputs = NoOutputs
    /\ files = NoFiles
    /\ calls = <<>>
    /\ _ticker_cik_map = NotLoaded

\* one more row of the raw-facts table
AddFact(D, max) ==
    /\ Len(raw_facts) < max
    /\ \E f \in D : raw_facts' = Append(raw_facts, f)
    /\ UNCHANGED <<output, raised, pc, kpi_call, kpi_result>>
    /\ UNCHANGED <<panel, report, include_kpi_checks>>
    /\ UNCHANGED <<wide, outputs, files, calls, _ticker_cik_map>>

\* XBRLNormalizer(min_year=2015).normalize(raw_facts)
Normalize ==
    /\ pc = "input"
    /\ \E tie \in 1..MaxFacts :
        LET res == normalize(raw_facts, tie)
        IN /\ output' = res.rows
           /\ raised' = res.raised
    /\ pc' = "done"
    /\ UNCHANGED <<raw_facts, kpi_call, kpi_result>>
    /\ UNCHANGED <<panel, report, include_kpi_checks>>
    /\ UNCHANGED <<wide, outputs, files, calls, _ticker_cik_map>>

\* arguments of the KPI calls, in units of 1e-11: missing values, values
\* below the guard (0, 5), on it (10) and above it, of both signs
KpiInputs == {None, NaN} \cup {Num(x) : x \in {-20, -5, 0, 5, 10, 20, 1000}}

PeriodsPerYear == {4, 12}

\* one call of a KPI function and the value it returned
KpiCall(fn, args, annualize, periods_per_year, result) ==
    /\ kpi_call' = [fn |-> fn, args |-> args, annualize |-> annualize,
                    periods_per_year |-> periods_per_year]
    /\ kpi_result' = result
    /\ pc' = "done"
    /\ UNCHANGED <<raw_facts, output, raised>>
    /\ UNCHANGED <<panel, report, include_kpi_checks>>
    /\ UNCHANGED <<wide, outputs, files, calls, _ticker_cik_map>>

CallReturnOnEquity ==
    /\ pc = "input" /\ raw_facts = <<>>
    /\ \E a, b \in KpiInputs, ann \in BOOLEAN, ppy \in PeriodsPerYear :
           KpiCall("return_on_equity", <<a, b>>, ann, ppy,
                   return_on_equity(a, b, ann, ppy))

CallReturnOnAssets ==
    /\ pc = "input" /\ raw_facts = <<>>
    /\ \E a, b \in KpiInputs, ann \in BOOLEAN, ppy \in PeriodsPerYear :
           KpiCall("return_on_assets", <<a, b>>, ann, ppy,
                   return_on_assets(a, b, ann, ppy))

CallNetInterestMargin ==
    /\ pc = "input" /\ raw_facts = <<>>
    /\ \E a, b \in KpiInputs, ann \in BOOLEAN, ppy \in PeriodsPerYear :
           KpiCall("net_interest_margin", <<a, b>>, ann, ppy,
                   net_interest_margin(a, b, ann, ppy))

CallNetChargeOffRatio ==
    /\ pc = "input" /\ raw_facts = <<>>
    /\ \E a, b \in KpiInputs, ann \in BOOLEAN, ppy \in PeriodsPerYear :
           KpiCall("net_charge_off_ratio", <<a, b>>, ann, ppy,
                   net_charge_off_ratio(a, b, ann, ppy))

CallEfficiencyRatio ==
    /\ pc = "input" /\ raw_facts = <<>>
    /\ \E a, b \in KpiInputs :
           KpiCall("efficiency_ratio", <<a, b>>, FALSE, 1, efficiency_ratio(a, b))

CallPreProvisionNetRevenue ==
    /\ pc = "input" /\ raw_facts = <<>>
    /\ \E a, b, c \in KpiInputs :
           KpiCall("pre_provision_net_revenue", <<a, b, c>>, FALSE, 1,
                   pre_provision_net_revenue(a, b, c))

CallEarningsPerShare ==
    /\ pc = "input" /\ raw_facts = <<>>
    /\ \E a, b \in KpiInputs :
           KpiCall("earnings_per_share", <<a, b>>, FALSE, 1, earnings_per_share(a, b))

CallBookValuePerShare ==
    /\ pc = "input" /\ raw_facts = <<>>
    /\ \E a, b \in KpiInputs :
           KpiCall("book_value_per_share", <<a, b>>, FALSE, 1,
                   book_value_per_share(a, b))

CallTangibleBookValuePerShare ==
    /\ pc = "input" /\ raw_facts = <<>>
    /\ \E a, b, c, d \in KpiInputs :
           KpiCall("tangible_book_value_per_share", <<a, b, c, d>>, FALSE, 1,
                   tangible_book_value_per_share(a, b, c, d))

CallPriceToBook ==
    /\ pc = "input" /\ raw_facts = <<>>
    /\ \E a, b \in KpiInputs :
           KpiCall("price_to_book", <<a, b>>, FALSE, 1, price_to_book(a, b))

CallPriceToEarnings ==
    /\ pc = "input" /\ raw_facts = <<>>
    /\ \E a, b \in KpiInputs :
           KpiCall("price_to_earnings", <<a, b>>, FALSE, 1, price_to_earnings(a, b))

CallPriceToTangibleBook ==
    /\ pc = "input" /\ raw_facts = <<>>
    /\ \E a, b \in KpiInputs :
           KpiCall("price_to_tangible_book", <<a, b>>, FALSE, 1,
                   price_to_tangible_book(a, b))

CallEquityToAssets ==
    /\ pc = "input" /\ raw_facts = <<>>
    /\ \E a, b \in KpiInputs :
           KpiCall("equity_to_assets", <<a, b>>, FALSE, 1, equity_to_assets(a, b))

CallTangibleEquityRatio ==
    /\ pc = "input" /\ raw_facts = <<>>
    /\ \E a, b, c, d \in KpiInputs :
           KpiCall("tangible_equity_ratio", <<a, b, c, d>>, FALSE, 1,
                   tangible_equity_ratio(a, b, c, d))

CallLeverageRatio ==
    /\ pc = "input" /\ raw_facts = <<>>
    /\ \E a, b \in KpiInputs :
           KpiCall("leverage_ratio", <<a, b>>, FALSE, 1, leverage_ratio(a, b))

CallAllowanceCoverageRatio ==
    /\ pc = "input" /\ raw_facts = <<>>
    /\ \E a, b \in KpiInputs :
           KpiCall("allowance_coverage_ratio", <<a, b>>, FALSE, 1,
                   allowance_coverage_ratio(a, b))

CallLoanToDepositRatio ==
    /\ pc = "input" /\ raw_facts = <<>>
    /\ \E a, b \in KpiInputs :
           KpiCall("loan_to_deposit_ratio", <<a, b>>, FALSE, 1,
                   loan_to_deposit_ratio(a, b))

CallYoyGrowth ==
    /\ pc = "input" /\ raw_facts = <<>>
    /\ \E a, b \in KpiInputs :
           KpiCall("yoy_growth", <<a, b>>, FALSE, 1, yoy_growth(a, b))

CallQoqGrowth ==
    /\ pc = "input" /\ raw_facts = <<>>
    /\ \E a, b \in KpiInputs :
           KpiCall("qoq_growth", <<a, b>>, FALSE, 1, qoq_growth(a, b))

\* rows handed to calculate_all_kpis: each field absent or reported, the two
\* share counts also NaN, None and 0
WideRows ==
    [net_income : {Absent, Num(100)},
     total_equity : {Absent, Num(1000)},
     total_assets : {Absent, Num(10000)},
     net_interest_income : {Absent, Num(300)},
     noninterest_income : {Absent, Num(500)},
     noninterest_expense : {Absent, Num(400)},
     total_revenue : {Absent, Num(800)},
     shares_outstanding : {Absent, NaN, None, Num(0), Num(20)},
     weighted_avg_shares_basic : {Absent, NaN, Num(25)},
     goodwill : {Absent, Num(200)},
     intangible_assets : {Absent, Num(100)},
     loans_net : {Absent, Num(1000)},
     total_deposits : {Absent, Num(2000)},
     allowance_for_loan_losses : {Absent, Num(250)}]

\* calculate_all_kpis(row)
CallCalculateAllKpis ==
    /\ pc = "input" /\ raw_facts = <<>>
    /\ \E row \in WideRows :
           KpiCall("calculate_all_kpis", <<row>>, "omitted", "omitted",
                   calculate_all_kpis(row))

\* return_on_equity(a, b), annualize and periods_per_year left to their defaults
CallReturnOnEquityDefault ==
    /\ pc = "input" /\ raw_facts = <<>>
    /\ \E a, b \in KpiInputs :
           KpiCall("return_on_equity", <<a, b>>, "omitted", "omitted",
                   return_on_equity(a, b, annualize_default, periods_per_year_default))

CallReturnOnAssetsDefault ==
    /\ pc = "input" /\ raw_facts = <<>>
    /\ \E a, b \in KpiInputs :
           KpiCall("return_on_assets", <<a, b>>, "omitted", "omitted",
                   return_on_assets(a, b, annualize_default, periods_per_year_default))

CallNetInterestMarginDefault ==
    /\ pc = "input" /\ raw_facts = <<>>
    /\ \E a, b \in KpiInputs :
           KpiCall("net_interest_margin", <<a, b>>, "omitted", "omitted",
                   net_interest_margin(a, b, annualize_default,
                                       periods_per_year_default))

CallNetChargeOffRatioDefault ==
    /\ pc = "input" /\ raw_facts = <<>>
    /\ \E a, b \in KpiInputs :
           KpiCall("net_charge_off_ratio", <<a, b>>, "omitted", "omitted",
                   net_charge_off_ratio(a, b, annualize_default,
                                        periods_per_year_default))

\* one row of a panel: the key columns and the cells given
PanelRow(ticker, fiscal_period, cells) ==
    [c \in KeyColumns \cup ValueColumns |->
        IF c = "ticker" THEN ticker
        ELSE IF c = "fiscal_year" THEN 2024
        ELSE IF c = "fiscal_period" THEN fiscal_period
        ELSE IF c \in DOMAIN cells THEN cells[c]
        ELSE Absent]

\* balance sheets that balance, miss by exactly 1%, by 2% and by more, with
\* zero and negative assets and with missing cells and columns
BalanceRows ==
    {PanelRow("JPM", "Q4",
              [total_assets |-> a, total_liabilities |-> l, total_equity |-> e]) :
        a \in {Absent, NaN, Num(0), Num(100), Num(-100)},
        l \in {Absent, Num(80), Num(88), Num(89)},
        e \in {NaN, Num(10), Num(20)}}

\* one cell per row: a should-be-positive column or net_income
SignRows ==
    {PanelRow("JPM", "Q4", c :> v) :
        c \in Range(positive_cols) \cup {"net_income"},
        v \in {NaN, Num(-5), Num(0), Num(5)}}

\* one ratio per row: below, on, between and above its bounds
RatioRows ==
    {PanelRow("JPM", "Q4", "leverage" :> v) :
        v \in {NaN, Num(3), Num(4), Num(10), Num(20), Num(21)}}
    \cup {PanelRow("JPM", "Q4", "roe" :> v) :
        v \in {NaN, Frac(-3, 5), Frac(-1, 2), Num(0), Frac(1, 2), Frac(3, 5)}}
    \cup {PanelRow("JPM", "Q4", "roa" :> v) :
        v \in {NaN, Frac(-1, 5), Frac(-1, 10), Num(0), Frac(1, 10), Frac(1, 5)}}
    \cup {PanelRow("JPM", "Q4", "nim" :> Num(5))}

\* two entities, two periods, each required concept reported or not
EntityRows ==
    {PanelRow(t, fp, [total_assets |-> a, total_equity |-> e, net_income |-> n]) :
        t \in {"JPM", "BAC"}, fp \in {"Q1", "Q2"},
        a \in {Absent, Num(100)}, e \in {Absent, Num(10)},
        n \in {Absent, NaN, Num(7)}}

\* rows that set off each of the checks, and rows that set off none
MixedRows ==
    {PanelRow("JPM", "Q1", [total_assets |-> Num(100), total_liabilities |-> Num(80),
                            total_equity |-> Num(10), net_income |-> Num(7)]),
     PanelRow("JPM", "Q2", [total_assets |-> Num(100), total_liabilities |-> Num(80),
                            total_equity |-> Num(20), net_income |-> Num(7),
                            roe |-> Frac(3, 5), leverage |-> Num(5)]),
     PanelRow("BAC", "Q1", [total_assets |-> Num(100), total_liabilities |-> Num(110),
                            total_equity |-> Num(-10)]),
     PanelRow("BAC", "Q2", [net_income |-> Num(7), roa |-> Frac(-1, 5)]),
     PanelRow("JPM", "Q3", [total_deposits |-> Num(-5), leverage |-> Num(3)]),
     PanelRow("BAC", "Q3", [total_assets |-> NaN, total_equity |-> Num(10)])}

\* one more row of the panel
AddPanelRow(D, max) ==
    /\ pc = "input"
    /\ Len(panel) < max
    /\ \E r \in D : panel' = Append(panel, r)
    /\ UNCHANGED <<raw_facts, output, raised, pc, kpi_call, kpi_result>>
    /\ UNCHANGED <<report, include_kpi_checks>>
    /\ UNCHANGED <<wide, outputs, files, calls, _ticker_cik_map>>

\* a check function called on the panel and the report; each at most once
CheckCall(name, rep) ==
    /\ pc \in {"input", "checking"}
    /\ name \notin Range(report.checks_run)
    /\ report' = rep
    /\ pc' = "checking"
    /\ UNCHANGED <<raw_facts, output, raised, kpi_call, kpi_result>>
    /\ UNCHANGED <<panel, include_kpi_checks>>
    /\ UNCHANGED <<wide, outputs, files, calls, _ticker_cik_map>>

CheckBalanceSheetIdentity ==
    CheckCall("balance_sheet_identity",
              check_balance_sheet_identity(panel, report, tolerance_default))

CheckPositiveValues ==
    CheckCall("positive_values", check_positive_values(panel, report))

CheckReasonableRatios ==
    CheckCall("reasonable_ratios", check_reasonable_ratios(panel, report))

CheckTemporalConsistency ==
    CheckCall("temporal_consistency",
              check_temporal_consistency(panel, report, max_change_default))

CheckCompleteness ==
    CheckCall("completeness",
              check_completeness(panel, report, required_items_default))

\* report = run_all_checks(panel, include_kpi_checks)
RunAllChecks ==
    /\ pc = "input"
    /\ \E include \in BOOLEAN :
          /\ report' = run_all_checks(panel, include)
          /\ include_kpi_checks' = include
    /\ pc' = "reported"
    /\ UNCHANGED <<raw_facts, output, raised, kpi_call, kpi_result, panel>>
    /\ UNCHANGED <<wide, outputs, files, calls, _ticker_cik_map>>

AddBalanceRow == AddPanelRow(BalanceRows, MaxRows)
AddSignRow == AddPanelRow(SignRows, MaxRows)
AddRatioRow == AddPanelRow(RatioRows, MaxRows)
AddEntityRow == AddPanelRow(EntityRows, MaxRows)
AddMixedRow == AddPanelRow(MixedRows, MaxRows)
\* a panel of one row
AddOneMixedRow == AddPanelRow(MixedRows, 1)

AddKeyFact == pc = "input" /\ AddFact(KeyFacts, MaxFacts)
AddDedupFact == pc = "input" /\ AddFact(DedupFacts, MaxFacts)
AddRestateFact == pc = "input" /\ AddFact(RestateFacts, MaxFacts)
AddUnitFact == pc = "input" /\ AddFact(UnitFacts, MaxRows)
AddTagFact == pc = "input" /\ AddFact(TagFacts, MaxFacts)
AddPeriodFact == pc = "input" /\ AddFact(PeriodFacts, MaxRows)

\* facts of two periods under a mapped tag of two concepts and a tag no
\* mapping lists, in two units, of two forms and with two period-end dates
DateFacts ==
    {Fact("JPM", 2015, fp, tag, unit, form, dt, 1, Num(100)) :
        fp \in {"Q1", "Q2"},
        tag \in {"us-gaap:NetIncomeLoss", "us-gaap:Assets", "dei:EntityPublicFloat"},
        unit \in {"USD", "shares"}, form \in {"10-K", "8-K"}, dt \in 1..2}

AddDateFact == pc = "input" /\ AddFact(DateFacts, MaxRows)

\* raw facts of the pipeline: the first tags of net_income, total_equity and
\* total_assets and a tag that no mapping lists, and one fact of a fiscal
\* year before min_year
PipelineFacts ==
    {Fact("JPM", 2015, "Q1", tag, "USD", "10-K", 1, 1, Num(v)) :
        tag \in {"us-gaap:NetIncomeLoss", "us-gaap:StockholdersEquity",
                 "us-gaap:Assets", "dei:EntityPublicFloat"},
        v \in {13, 300, 3000}}
    \cup {Fact("JPM", 2014, "Q1", "us-gaap:NetIncomeLoss", "USD", "10-K", 1, 1, Num(13))}

AddPipelineFact == pc = "input" /\ AddFact(PipelineFacts, MaxFacts)

\* FundamentalsPipeline(config).run() on the raw facts of
\* fundamentals_raw_facts.parquet: steps 1 to 4 each compute one value, the
\* normalized rows, the wide frame, the KPI records, the merged panel and
\* the quality report
Run ==
    /\ pc = "input"
    /\ \E tie \in 1..MaxFacts :
       \E normalized \in {normalize(raw_facts, tie)} :
       \E frame \in {to_wide_format(normalized.rows)} :
       \E kpis \in {_calculate_kpis(frame)} :
       \E wide_with_kpis \in {merge(frame, kpis.rows)} :
       \E quality_report \in {run_all_checks(wide_with_kpis.rows, TRUE)} :
          outputs' = run(normalized, frame, kpis, wide_with_kpis, quality_report)
    /\ pc' = "ran"
    /\ UNCHANGED <<raw_facts, output, raised, kpi_call, kpi_result>>
    /\ UNCHANGED <<panel, report, include_kpi_checks>>
    /\ UNCHANGED <<wide, files, calls, _ticker_cik_map>>

\* rows of a long frame, of the shape normalize emits: two entities, two
\* dates, two line items and two values
LongRows ==
    {[ticker |-> t, fiscal_year |-> 2015, fiscal_period |-> "Q1", date |-> dt,
      line_item |-> item, value |-> Num(v), source_tag |-> "us-gaap:Assets"] :
        t \in {"JPM", "BAC"}, dt \in 1..2,
        item \in {"net_income", "total_assets"}, v \in {100, 200}}

\* one more row of the long frame
AddLongRow ==
    /\ pc = "input"
    /\ Len(output) < MaxFacts
    /\ \E r \in LongRows : output' = Append(output, r)
    /\ UNCHANGED <<raw_facts, raised, pc, kpi_call, kpi_result>>
    /\ UNCHANGED <<panel, report, include_kpi_checks>>
    /\ UNCHANGED <<wide, outputs, files, calls, _ticker_cik_map>>

\* wide = normalizer.to_wide_format(output)
ToWideFormat ==
    /\ pc = "input"
    /\ wide' = to_wide_format(output)
    /\ pc' = "done"
    /\ UNCHANGED <<raw_facts, output, raised, kpi_call, kpi_result>>
    /\ UNCHANGED <<panel, report, include_kpi_checks>>
    /\ UNCHANGED <<outputs, files, calls, _ticker_cik_map>>

\* report.add(warning), called on the report directly
ManualWarnings ==
    {QualityWarning("manual", Severity.INFO, "JPM", <<2024, "Q1">>, <<"note">>,
                    [item |-> "note"])}

ReportAdd ==
    /\ pc \in {"input", "checking"}
    /\ Len(report.warnings) < MaxRows
    /\ \E w \in ManualWarnings : report' = add(report, <<w>>)
    /\ pc' = "checking"
    /\ UNCHANGED <<raw_facts, output, raised, kpi_call, kpi_result>>
    /\ UNCHANGED <<panel, include_kpi_checks>>
    /\ UNCHANGED <<wide, outputs, files, calls, _ticker_cik_map>>

\* keys and contents of the cache calls: a key with '/', the key it is
\* written under, and a plain key; text in and outside ASCII, and bytes
CacheKeys == {<<"a", "/", "b">>, <<"a", "_", "b">>, <<"c">>}
Contents == {Str(<<97>>), Str(<<233>>), Bytes(<<0, 255>>)}
SourceUrl == <<"http", ":", "/", "/", "example.com">>

\* one call of the cache, logged with its result
CacheCall(op, key, arg, result, fs) ==
    /\ Len(calls) < MaxCalls
    /\ calls' = Append(calls, Call(op, key, arg, result))
    /\ files' = fs
    /\ UNCHANGED <<raw_facts, output, raised, pc, kpi_call, kpi_result>>
    /\ UNCHANGED <<panel, report, include_kpi_checks>>
    /\ UNCHANGED <<wide, outputs, _ticker_cik_map>>

Store ==
    \E key \in CacheKeys, content \in Contents :
        CacheCall("store", key, content, NoContent,
                  store(files, key, content, SourceUrl))

LoadText ==
    \E key \in CacheKeys :
        CacheCall("load_text", key, NoContent, load_text(files, key), files)

LoadBytes ==
    \E key \in CacheKeys :
        CacheCall("load_bytes", key, NoContent, load_bytes(files, key), files)

HasCached ==
    \E key \in CacheKeys :
        CacheCall("has_cached", key, NoContent, has_cached(files, key), files)

Tickers == {"JPM", "jpm", "BAC"}
Ciks == {"0000000001", "0000000002"}

FactsCalls == SelectSeq(calls, LAMBDA c : c.op = "get_company_facts")

\* loader.get_company_facts(ticker): the requests it made and then the call
\* itself are logged
GetCompanyFacts ==
    /\ Len(FactsCalls) < MaxCalls
    /\ \E ticker \in Tickers, tickers_answer \in CompanyTickers,
          facts_answer \in [Ciks -> UNION {CompanyFacts(c) : c \in Ciks}] :
          /\ \A c \in Ciks : facts_answer[c] \in CompanyFacts(c)
          /\ LET r == get_company_facts(_ticker_cik_map, files, ticker,
                                        tickers_answer, facts_answer)
             IN /\ files' = r.fs
                /\ _ticker_cik_map' = r.memo
                /\ calls' = calls \o r.requests
                            \o <<Call("get_company_facts", <<ticker>>, NoContent,
                                      [raised |-> r.raised, data |-> r.data])>>
    /\ UNCHANGED <<raw_facts, output, raised, pc, kpi_call, kpi_result>>
    /\ UNCHANGED <<panel, report, include_kpi_checks>>
    /\ UNCHANGED <<wide, outputs>>

\* SECLoader(config) constructed again on the same directories
NewLoader ==
    /\ _ticker_cik_map # NotLoaded
    /\ _ticker_cik_map' = NotLoaded
    /\ UNCHANGED <<raw_facts, output, raised, pc, kpi_call, kpi_result>>
    /\ UNCHANGED <<panel, report, include_kpi_checks>>
    /\ UNCHANGED <<wide, outputs, files, calls>>

NextKeys == AddKeyFact \/ Normalize
NextDedup == AddDedupFact \/ Normalize
NextRestate == AddRestateFact \/ Normalize
NextUnits == AddUnitFact \/ Normalize
NextTags == AddTagFact \/ Normalize
NextPeriods == AddPeriodFact \/ Normalize
NextDates == AddDateFact \/ Normalize

NextKpi ==
    \/ CallReturnOnEquity \/ CallReturnOnAssets \/ CallNetInterestMargin
    \/ CallNetChargeOffRatio \/ CallEfficiencyRatio \/ CallPreProvisionNetRevenue
    \/ CallEarningsPerShare \/ CallBookValuePerShare
    \/ CallTangibleBookValuePerShare \/ CallPriceToBook \/ CallPriceToEarnings
    \/ CallPriceToTangibleBook \/ CallEquityToAssets \/ CallTangibleEquityRatio
    \/ CallLeverageRatio \/ CallAllowanceCoverageRatio \/ CallLoanToDepositRatio
    \/ CallYoyGrowth \/ CallQoqGrowth

NextAllKpis ==
    \/ CallCalculateAllKpis
    \/ CallReturnOnEquityDefault \/ CallReturnOnAssetsDefault
    \/ CallNetInterestMarginDefault \/ CallNetChargeOffRatioDefault

NextBalance == AddBalanceRow \/ CheckBalanceSheetIdentity
NextSigns == AddSignRow \/ CheckPositiveValues
NextRatios == AddRatioRow \/ CheckReasonableRatios
NextEntities == AddEntityRow \/ CheckCompleteness

NextChecks ==
    \/ AddMixedRow
    \/ CheckBalanceSheetIdentity \/ CheckPositiveValues \/ CheckReasonableRatios
    \/ CheckTemporalConsistency \/ CheckCompleteness
    \/ RunAllChecks

SpecKeys == Init /\ [][NextKeys]_vars
SpecDedup == Init /\ [][NextDedup]_vars
SpecRestate == Init /\ [][NextRestate]_vars
SpecUnits == Init /\ [][NextUnits]_vars
SpecTags == Init /\ [][NextTags]_vars
SpecPeriods == Init /\ [][NextPeriods]_vars
SpecDates == Init /\ [][NextDates]_vars
SpecKpi == Init /\ [][NextKpi]_vars
SpecAllKpis == Init /\ [][NextAllKpis]_vars
SpecBalance == Init /\ [][NextBalance]_vars
SpecSigns == Init /\ [][NextSigns]_vars
SpecRatios == Init /\ [][NextRatios]_vars
SpecEntities == Init /\ [][NextEntities]_vars
SpecChecks == Init /\ [][NextChecks]_vars

NextPipeline == AddPipelineFact \/ Run
NextWide == AddLongRow \/ ToWideFormat
NextAppend ==
    \/ AddOneMixedRow
    \/ CheckBalanceSheetIdentity \/ CheckPositiveValues \/ CheckReasonableRatios
    \/ CheckTemporalConsistency \/ CheckCompleteness
    \/ RunAllChecks
    \/ ReportAdd
NextCache == Store \/ LoadText \/ LoadBytes \/ HasCached
NextLoader == GetCompanyFacts \/ NewLoader

SpecPipeline == Init /\ [][NextPipeline]_vars
SpecWide == Init /\ [][NextWide]_vars
SpecAppend == Init /\ [][NextAppend]_vars
SpecCache == Init /\ [][NextCache]_vars
SpecLoader == Init /\ [][NextLoader]_vars

-----------------------------------------------------------------------------
(* Properties of XBRLNormalizer.normalize *)

Done == pc = "done"

Rows == Range(output)

RowKey(r) == <<r.ticker, r.fiscal_year, r.fiscal_period, r.line_item>>

MappingOf(name) == CHOOSE m \in Range(mappings) : m.name = name

\* the raw facts of the entity and fiscal period of an emitted row
PeriodFactsOf(r) ==
    {f \in Range(raw_facts) :
        f.ticker = r.ticker /\ f.fy = r.fiscal_year /\ f.fp = r.fiscal_period}

\* the facts of a row's period that carry the tag, in the unit of the row's
\* line item
FactsOfTag(r, tag) ==
    {f \in PeriodFactsOf(r) :
        f.tag = tag /\ f.unit = MappingOf(r.line_item).unit_filter}

\* the facts a row's value was resolved among
Candidates(r) == FactsOfTag(r, r.source_tag)

\* C1: normalize never emits two rows with the same
\* (ticker, fiscal_year, fiscal_period, line_item) key, whatever duplicate or
\* multiply-tagged facts the table holds for that key.
C1_UniqueKeys ==
    Done => \A i, j \in 1..Len(output) :
                i # j => RowKey(output[i]) # RowKey(output[j])

\* a table with a duplicate fact and a second tag of the same concept and
\* period, normalized to a single net_income row
C1_Witness ==
    /\ Done
    /\ Len(raw_facts) = 3
    /\ raw_facts[1] = raw_facts[2]
    /\ raw_facts[1].tag = "us-gaap:NetIncomeLoss"
    /\ raw_facts[3] = [raw_facts[1] EXCEPT !.tag = "us-gaap:ProfitLoss"]
    /\ Len(output) = 1
    /\ output[1].line_item = "net_income"

FormOrder == <<"10-K", "10-Q", "10-K/A", "10-Q/A">>

\* the facts of cands with the first form of FormOrder that occurs among them,
\* all of cands when none occurs
KeptByForm(cands) ==
    LET present == {i \in 1..Len(FormOrder) :
                        \E f \in cands : f.form = FormOrder[i]}
    IN IF present = {} THEN cands
       ELSE LET first == CHOOSE i \in present : \A j \in present : i <= j
            IN {f \in cands : f.form = FormOrder[first]}

\* number of rows of the table that are among the candidates of row r
Duplicates(r) == Len(SelectSeq(raw_facts, LAMBDA f : f \in Candidates(r)))

\* C2: when several facts carry the winning tag, only those of the first form
\* of [10-K, 10-Q, 10-K/A, 10-Q/A] that occurs among them are kept, all of
\* them when none occurs, and the emitted value is the most recently dated of
\* the kept facts; a 10-Q value wins over an 8-K value.
C2_FormPreference ==
    Done => \A r \in Rows :
        Duplicates(r) > 1 =>
            \E f \in KeptByForm(Candidates(r)) :
                /\ f.value = r.value
                /\ \A g \in KeptByForm(Candidates(r)) : g.date <= f.date

\* an 8-K fact of value 100 with the later date and a 10-Q fact of value 200:
\* the 10-Q value is emitted
C2_Witness ==
    /\ Done
    /\ Len(raw_facts) = 2
    /\ \E i, j \in 1..2 :
        /\ raw_facts[i].form = "8-K" /\ raw_facts[i].value = Num(100)
        /\ raw_facts[i].date = 2
        /\ raw_facts[j].form = "10-Q" /\ raw_facts[j].value = Num(200)
        /\ raw_facts[j].date = 1
    /\ Len(output) = 1
    /\ output[1].value = Num(200)

\* C3: of the candidates left after form preference, the one with the most
\* recent filed date is the one whose value is emitted.
C3_LatestFiledWins ==
    Done => \A r \in Rows :
        \E f \in KeptByForm(Candidates(r)) :
            /\ f.value = r.value
            /\ \A g \in KeptByForm(Candidates(r)) : g.filed <= f.filed

\* C4: the fact selected for a line item always has the unit named by the
\* item's unit_filter (USD, shares or pure), also when no fact of that unit
\* exists.
C4_UnitMatches ==
    Done => \A r \in Rows :
        \E f \in PeriodFactsOf(r) :
            /\ f.tag = r.source_tag
            /\ f.value = r.value
            /\ f.unit = MappingOf(r.line_item).unit_filter

TagIndex(tags, tag) == CHOOSE i \in 1..Len(tags) : tags[i] = tag

\* in the period of fact g, mapping m has facts under the tag and all of them
\* carry a value
TagIsUsable(g, m, tag) ==
    LET facts == {f \in Range(raw_facts) :
                    /\ f.ticker = g.ticker /\ f.fy = g.fy /\ f.fp = g.fp
                    /\ f.tag = tag /\ f.unit = m.unit_filter}
    IN facts # {} /\ \A f \in facts : ~IsNaN(f.value)

\* C5: for each period and line item the emitted value is the value of a fact
\* of one tag, the earliest tag of the item's list that yields a usable value:
\* every earlier tag has no fact or resolves to NaN, source_tag is the tag of
\* the fact emitted, and an item with a usable tag is emitted.
C5_TagPriority ==
    Done =>
      /\ \A g \in Range(raw_facts), m \in Range(mappings) :
            (\E t \in Range(m.tags) : TagIsUsable(g, m, t)) =>
                \E r \in Rows : RowKey(r) = <<g.ticker, g.fy, g.fp, m.name>>
      /\ \A r \in Rows :
            LET tags == MappingOf(r.line_item).tags
            IN /\ r.source_tag \in Range(tags)
               /\ ~IsNaN(r.value)
               /\ \E f \in FactsOfTag(r, r.source_tag) : f.value = r.value
               /\ \A j \in 1..(TagIndex(tags, r.source_tag) - 1) :
                    \/ FactsOfTag(r, tags[j]) = {}
                    \/ \E f \in FactsOfTag(r, tags[j]) : IsNaN(f.value)

\* the first tag has only a NaN fact, the second and the third a value each:
\* the second tag's value is emitted under the second tag
C5_Witness ==
    /\ Done
    /\ Len(raw_facts) = 3
    /\ \E i, j, k \in 1..3 :
        /\ raw_facts[i].tag = "us-gaap:NetIncomeLoss" /\ IsNaN(raw_facts[i].value)
        /\ raw_facts[j].tag = "us-gaap:ProfitLoss" /\ raw_facts[j].value = Num(100)
        /\ raw_facts[k].tag = "us-gaap:NetIncomeLossAvailableToCommonStockholdersBasic"
        /\ raw_facts[k].value = Num(200)
    /\ Len(output) = 1
    /\ output[1].source_tag = "us-gaap:ProfitLoss"
    /\ output[1].value = Num(100)

PassesFilter(f) == f.fy >= min_year /\ f.fp \in {"Q1", "Q2", "Q3", "Q4", "FY"}

\* C6: every emitted row has fiscal_year >= min_year and a period among
\* Q1..Q4, FY and takes its value and tag from such a fact; the other facts
\* are dropped without raising, and the result is the result for the table
\* without them.
C6_YearPeriodFilter ==
    Done =>
        /\ \A r \in Rows :
            /\ r.fiscal_year >= min_year
            /\ r.fiscal_period \in {"Q1", "Q2", "Q3", "Q4", "FY"}
            /\ \E f \in PeriodFactsOf(r) :
                PassesFilter(f) /\ f.value = r.value /\ f.tag = r.source_tag
        /\ \E tie \in 1..MaxFacts :
            normalize(SelectSeq(raw_facts, PassesFilter), tie)
                = [rows |-> output, raised |-> raised]
        /\ (\A i \in 1..Len(raw_facts) : ~PassesFilter(raw_facts[i])) =>
                (~raised /\ output = <<>>)

\* a 2015 Q1 fact and a 2014 fact of a higher-priority tag, a later date and
\* another value: the row carries the 2015 fact's value, tag and date
C6_Witness ==
    /\ Done
    /\ Len(raw_facts) = 2
    /\ \E i, j \in 1..2 :
        /\ raw_facts[i] = Fact("JPM", 2015, "Q1", "us-gaap:ProfitLoss", "USD",
                               "10-K", 1, 1, Num(100))
        /\ raw_facts[j] = Fact("JPM", 2014, "Q1", "us-gaap:NetIncomeLoss", "USD",
                               "10-K", 2, 2, Num(200))
    /\ Len(output) = 1
    /\ output[1].value = Num(100)
    /\ output[1].source_tag = "us-gaap:ProfitLoss"
    /\ output[1].date = 1

\* C7: normalize never raises; a concept without a matching fact is not
\* emitted, and when the facts that pass the filter match no concept the
\* result is an empty panel.
C7_NeverRaises ==
    Done =>
        /\ ~raised
        /\ \A r \in Rows : \E f \in PeriodFactsOf(r) : f.tag = r.source_tag

Perms(n) == {p \in [1..n -> 1..n] : \A i, j \in 1..n : i # j => p[i] # p[j]}

Permute(s, p) == [i \in 1..Len(s) |-> s[p[i]]]

\* key, value and source tag of every row
Emitted(rows) ==
    {<<RowKey(rows[i]), rows[i].value, rows[i].source_tag>> : i \in 1..Len(rows)}

\* C8: the emitted values and source tags do not depend on the order of the
\* rows of the raw-facts table: under the sort behaviour that produced the
\* output, every reordering of the table gives the same value and tag per key.
C8_OrderInsensitive ==
    Done => \A tie \in 1..MaxFacts :
        Emitted(normalize(raw_facts, tie).rows) = Emitted(output) =>
            \A p \in Perms(Len(raw_facts)) :
                Emitted(normalize(Permute(raw_facts, p), tie).rows) = Emitted(output)

-----------------------------------------------------------------------------
(* Properties of the KPI library *)

Annualizable ==
    {"return_on_equity", "return_on_assets", "net_interest_margin",
     "net_charge_off_ratio"}

Growth == {"yoy_growth", "qoq_growth"}

RatioFunctions ==
    Annualizable \cup Growth \cup
    {"efficiency_ratio", "earnings_per_share", "book_value_per_share",
     "price_to_book", "price_to_earnings", "price_to_tangible_book",
     "equity_to_assets", "leverage_ratio", "loan_to_deposit_ratio"}

Missing(v) == v.k \in {"none", "nan"}

\* the ratio of a call of a ratio function, whose first argument is the
\* numerator and second the denominator; 10 is 1e-10 in the arguments' unit
ExpectedRatio(call) ==
    LET num == call.args[1]
        den == call.args[2]
    IN IF Missing(num) \/ Missing(den) THEN NaN
       ELSE IF -10 < den.n /\ den.n < 10 THEN NaN
       ELSE IF call.fn \in Growth
            THEN Frac(num.n - den.n, IF den.n < 0 THEN -den.n ELSE den.n)
       ELSE IF call.fn \in Annualizable /\ call.annualize
            THEN Frac(num.n * call.periods_per_year, den.n)
       ELSE Frac(num.n, den.n)

TermOrZero(v) == IF Missing(v) THEN 0 ELSE v.n

\* C10: tangible_book_value_per_share and tangible_equity_ratio count a
\* missing goodwill or intangible_assets as 0 and pre_provision_net_revenue
\* each missing term as 0, giving the formula's value with 0 in their place;
\* a missing total_equity, shares_outstanding or total_assets gives NaN.
C10_MissingTermsAreZero ==
    Done =>
        LET a == kpi_call.args
        IN /\ kpi_call.fn = "tangible_book_value_per_share" =>
                IF Missing(a[1]) \/ Missing(a[4]) THEN IsNaN(kpi_result)
                ELSE (a[4].n <= -10 \/ a[4].n >= 10) =>
                        kpi_result = Frac(a[1].n - TermOrZero(a[2]) - TermOrZero(a[3]),
                                          a[4].n)
           /\ kpi_call.fn = "tangible_equity_ratio" =>
                IF Missing(a[1]) \/ Missing(a[4]) THEN IsNaN(kpi_result)
                ELSE LET den == a[4].n - TermOrZero(a[2]) - TermOrZero(a[3])
                     IN (den <= -10 \/ den >= 10) =>
                            kpi_result =
                                Frac(a[1].n - TermOrZero(a[2]) - TermOrZero(a[3]), den)
           /\ kpi_call.fn = "pre_provision_net_revenue" =>
                kpi_result = Num(TermOrZero(a[1]) + TermOrZero(a[2]) - TermOrZero(a[3]))

\* equity 1000, goodwill None, intangibles NaN, 20 shares: 50 per share
C10_Witness ==
    /\ Done
    /\ kpi_call.fn = "tangible_book_value_per_share"
    /\ kpi_call.args = <<Num(1000), None, NaN, Num(20)>>
    /\ kpi_result = Num(50)

-----------------------------------------------------------------------------
(* Properties of calculate_all_kpis and of annualization *)

AllKpisDone == Done /\ kpi_call.fn = "calculate_all_kpis"

\* the row of the calculate_all_kpis call
TheRow == kpi_call.args[1]

\* the field has a value: it is in the row and is a number
Present(row, col) == row[col].k = "num"

ValueOr0(row, col) == IF Present(row, col) THEN row[col].n ELSE 0

\* numerator over share count; 10 is 1e-10 in the values' unit
PerShare(numerator, count) ==
    IF count = 0 \/ (-10 < count /\ count < 10) THEN NaN ELSE Frac(numerator, count)

\* the share count the per-share KPIs are to use: shares_outstanding when
\* the row has it, else weighted_avg_shares_basic; "none" when it has neither
ShareField(row) ==
    IF Present(row, "shares_outstanding") THEN "shares_outstanding"
    ELSE IF Present(row, "weighted_avg_shares_basic") THEN "weighted_avg_shares_basic"
    ELSE "none"

\* C11: eps, bvps and tbvps of calculate_all_kpis are computed with
\* shares_outstanding when the row has a value for it, and with
\* weighted_avg_shares_basic when shares_outstanding is absent or NaN and
\* weighted_avg_shares_basic has a value.
C11_SharesFallback ==
    AllKpisDone =>
        LET row == TheRow
            sf == ShareField(row)
        IN (sf # "none") =>
              /\ Present(row, "net_income") =>
                    kpi_result.eps = PerShare(row.net_income.n, row[sf].n)
              /\ Present(row, "total_equity") =>
                    /\ kpi_result.bvps = PerShare(row.total_equity.n, row[sf].n)
                    /\ kpi_result.tbvps =
                          PerShare(row.total_equity.n - ValueOr0(row, "goodwill")
                                     - ValueOr0(row, "intangible_assets"),
                                   row[sf].n)

KpiNames ==
    {"roe", "roa", "nim", "efficiency_ratio", "ppnr", "eps", "bvps", "tbvps",
     "equity_to_assets", "tce_ratio", "leverage", "ldr", "allowance_coverage"}

PerShareKpis == {"eps", "bvps", "tbvps"}

\* the fields a KPI cannot do without (the share count of the per-share KPIs
\* is ShareField)
RequiredInputs ==
    [roe |-> {"net_income", "total_equity"},
     roa |-> {"net_income", "total_assets"},
     nim |-> {"net_interest_income", "total_assets"},
     efficiency_ratio |-> {"noninterest_expense", "total_revenue"},
     ppnr |-> {},
     eps |-> {"net_income"},
     bvps |-> {"total_equity"},
     tbvps |-> {"total_equity"},
     equity_to_assets |-> {"total_equity", "total_assets"},
     tce_ratio |-> {"total_equity", "total_assets"},
     leverage |-> {"total_assets", "total_equity"},
     ldr |-> {"loans_net", "total_deposits"},
     allowance_coverage |-> {"allowance_for_loan_losses", "loans_net"}]

HasInputs(row, kpi) ==
    /\ \A col \in RequiredInputs[kpi] : Present(row, col)
    /\ kpi \in PerShareKpis => ShareField(row) # "none"

\* the KPI's ratio function applied to the row's values of its inputs (every
\* required input has a value)
KpiOfInputs(row, kpi) ==
    LET shares == IF ShareField(row) = "none" THEN NaN ELSE row[ShareField(row)]
        opt(col) == IF Present(row, col) THEN row[col] ELSE NaN
    IN CASE kpi = "roe" ->
              return_on_equity(row.net_income, row.total_equity,
                               annualize_default, periods_per_year_default)
         [] kpi = "roa" ->
              return_on_assets(row.net_income, row.total_assets,
                               annualize_default, periods_per_year_default)
         [] kpi = "nim" ->
              net_interest_margin(row.net_interest_income, row.total_assets,
                                  annualize_default, periods_per_year_default)
         [] kpi = "efficiency_ratio" ->
              efficiency_ratio(row.noninterest_expense, row.total_revenue)
         [] kpi = "ppnr" ->
              pre_provision_net_revenue(opt("net_interest_income"),
                                        opt("noninterest_income"),
                                        opt("noninterest_expense"))
         [] kpi = "eps" -> earnings_per_share(row.net_income, shares)
         [] kpi = "bvps" -> book_value_per_share(row.total_equity, shares)
         [] kpi = "tbvps" ->
              tangible_book_value_per_share(row.total_equity, opt("goodwill"),
                                            opt("intangible_assets"), shares)
         [] kpi = "equity_to_assets" ->
              equity_to_assets(row.total_equity, row.total_assets)
         [] kpi = "tce_ratio" ->
              tangible_equity_ratio(row.total_equity, opt("goodwill"),
                                    opt("intangible_assets"), row.total_assets)
         [] kpi = "leverage" -> leverage_ratio(row.total_assets, row.total_equity)
         [] kpi = "ldr" -> loan_to_deposit_ratio(row.loans_net, row.total_deposits)
         [] kpi = "allowance_coverage" ->
              allowance_coverage_ratio(row.allowance_for_loan_losses, row.loans_net)

\* C12: calculate_all_kpis returns the same KPI names for every row; a KPI
\* lacking a required input is NaN, and a KPI whose required inputs all have
\* values is its ratio function of those values, whatever else is missing.
C12_EveryKpiFromItsInputs ==
    AllKpisDone =>
        /\ DOMAIN kpi_result = KpiNames
        /\ \A kpi \in KpiNames :
              IF HasInputs(TheRow, kpi)
              THEN kpi_result[kpi] = KpiOfInputs(TheRow, kpi)
              ELSE IsNaN(kpi_result[kpi])

\* the call left annualize and periods_per_year to their defaults
DefaultCall == kpi_call.fn \in Annualizable /\ kpi_call.annualize = "omitted"

\* both arguments are numbers and the denominator passes the 1e-10 guard
RatioDefined(a, b) ==
    /\ a.k = "num" /\ b.k = "num"
    /\ (b.n <= -10 \/ b.n >= 10)

\* the roe, roa and nim of the row are `times` the period's ratios
RowRatiosTimes(times) ==
    LET row == TheRow
    IN /\ (Present(row, "net_income") /\ Present(row, "total_equity")) =>
             kpi_result.roe = Frac(times * row.net_income.n, row.total_equity.n)
       /\ (Present(row, "net_income") /\ Present(row, "total_assets")) =>
             kpi_result.roa = Frac(times * row.net_income.n, row.total_assets.n)
       /\ (Present(row, "net_interest_income") /\ Present(row, "total_assets")) =>
             kpi_result.nim =
                 Frac(times * row.net_interest_income.n, row.total_assets.n)

\* C13 (as stated): return_on_equity, return_on_assets, net_interest_margin
\* and net_charge_off_ratio called without an annualize argument return the
\* plain ratio of their inputs, and the roe, roa and nim calculate_all_kpis
\* reports are the unscaled ratios of the row.
C13_PlainUnlessRequested ==
    Done =>
        /\ DefaultCall =>
              (RatioDefined(kpi_call.args[1], kpi_call.args[2]) =>
                  kpi_result = Frac(kpi_call.args[1].n, kpi_call.args[2].n))
        /\ kpi_call.fn = "calculate_all_kpis" => RowRatiosTimes(1)

\* C13 (amended): annualization is the default: the four functions called
\* without an annualize argument return 4 times the ratio of their inputs,
\* and the roe, roa and nim calculate_all_kpis reports are 4 times the
\* ratios of the row.
C13_AnnualizedByDefault ==
    Done =>
        /\ DefaultCall =>
              (RatioDefined(kpi_call.args[1], kpi_call.args[2]) =>
                  kpi_result = Frac(4 * kpi_call.args[1].n, kpi_call.args[2].n))
        /\ kpi_call.fn = "calculate_all_kpis" => RowRatiosTimes(4)

\* a row with net_income 100 and total_equity 1000 is reported roe 0.4
C13_Witness ==
    /\ AllKpisDone
    /\ TheRow.net_income = Num(100)
    /\ TheRow.total_equity = Num(1000)
    /\ kpi_result.roe = Frac(2, 5)

\* the call named annualize and periods_per_year
ExplicitCall == kpi_call.fn \in Annualizable /\ kpi_call.annualize \in BOOLEAN

\* the same function on the same inputs with annualize=False
Unannualized(call) ==
    LET a == call.args[1]
        b == call.args[2]
        ppy == call.periods_per_year
    IN CASE call.fn = "return_on_equity" -> return_on_equity(a, b, FALSE, ppy)
         [] call.fn = "return_on_assets" -> return_on_assets(a, b, FALSE, ppy)
         [] call.fn = "net_interest_margin" -> net_interest_margin(a, b, FALSE, ppy)
         [] call.fn = "net_charge_off_ratio" -> net_charge_off_ratio(a, b, FALSE, ppy)

\* with annualize=True the result is periods_per_year times the result with
\* annualize=False, which is numerator/denominator
AnnualizeScales(call, result) ==
    LET a == call.args[1]
        b == call.args[2]
        ppy == call.periods_per_year
    IN IF call.annualize
       THEN /\ result = Scale(Unannualized(call), ppy)
            /\ result = Frac(ppy * a.n, b.n)
       ELSE result = Frac(a.n, b.n)

\* C14 (as stated): for valid inputs and a non-zero denominator an
\* annualizable KPI with annualize=True is periods_per_year times the one
\* with annualize=False, which is numerator/denominator.
C14_AnnualizeScalesNonZero ==
    (Done /\ ExplicitCall) =>
        LET a == kpi_call.args[1]
            b == kpi_call.args[2]
        IN (a.k = "num" /\ b.k = "num" /\ b.n # 0) =>
              AnnualizeScales(kpi_call, kpi_result)

\* C14 (amended): the same for valid inputs and a denominator whose absolute
\* value is at least 1e-10.
C14_AnnualizeScales ==
    (Done /\ ExplicitCall) =>
        (RatioDefined(kpi_call.args[1], kpi_call.args[2]) =>
            AnnualizeScales(kpi_call, kpi_result))

\* a quarter of the income, annualized over 4 periods: 5/20 * 4 = 1
C14_Witness ==
    /\ Done
    /\ kpi_call.fn = "return_on_equity"
    /\ kpi_call.args = <<Num(5), Num(20)>>
    /\ kpi_call.annualize = TRUE
    /\ kpi_call.periods_per_year = 4
    /\ kpi_result = Num(1)

-----------------------------------------------------------------------------
(* Properties of the data quality checks *)

\* the check function has been applied to the report
HasRun(name) == name \in Range(report.checks_run)

\* the warnings of the report that are of the check
WarningsOf(name) ==
    SelectSeq(report.warnings, LAMBDA w : w.check_name = name)

HasValue(row, col) == row[col].k = "num"

\* |assets - (liabilities + equity)| of a row with the three values
Imbalance(row) ==
    LET x == row.total_assets.n - (row.total_liabilities.n + row.total_equity.n)
    IN IF x < 0 THEN -x ELSE x

\* the three values are there, assets is not 0 and the imbalance is more
\* than 1% of |assets|
OffBalance(row) ==
    /\ HasValue(row, "total_assets")
    /\ HasValue(row, "total_liabilities")
    /\ HasValue(row, "total_equity")
    /\ row.total_assets.n # 0
    /\ 100 * Imbalance(row) >
           (IF row.total_assets.n < 0 THEN -row.total_assets.n ELSE row.total_assets.n)

\* C15: check_balance_sheet_identity appends exactly one WARNING whose
\* message contains "doesn't balance" for each row that has total_assets,
\* total_liabilities and total_equity, non-zero assets and
\* |assets - (liabilities + equity)| / |assets| strictly above 1%, in row
\* order, and nothing for any other row.
C15_BalanceWarnings ==
    HasRun("balance_sheet_identity") =>
        LET off == SelectSeq(panel, OffBalance)
            w == report.warnings
        IN /\ Len(w) = Len(off)
           /\ \A i \in 1..Len(w) :
                 /\ w[i].check_name = "balance_sheet_identity"
                 /\ w[i].severity = "warning"
                 /\ w[i].message = <<"Balance sheet doesn't balance">>
                 /\ w[i].ticker = off[i].ticker
                 /\ w[i].details.diff = Num(Imbalance(off[i]))

\* assets 100, liabilities 80: equity 10 is flagged, equity 20 is not
C15_Witness ==
    /\ HasRun("balance_sheet_identity")
    /\ Len(panel) = 2
    /\ panel[1].total_assets = Num(100) /\ panel[1].total_liabilities = Num(80)
    /\ panel[1].total_equity = Num(10)
    /\ panel[2].total_assets = Num(100) /\ panel[2].total_liabilities = Num(80)
    /\ panel[2].total_equity = Num(20)
    /\ Len(report.warnings) = 1

PositiveConcepts ==
    {"total_assets", "total_liabilities", "total_equity", "total_deposits",
     "loans_net", "shares_outstanding"}

\* the rows of the panel whose value in the column is below zero
NegativeRows(col) ==
    {i \in 1..Len(panel) : HasValue(panel[i], col) /\ panel[i][col].n < 0}

\* C16: check_positive_values appends exactly one ERROR for every (row,
\* column) with column one of the six should-be-positive concepts and a
\* value below zero; zero, positive and missing values and negative values
\* of other columns give nothing.
C16_NegativeValues ==
    HasRun("positive_values") =>
        LET w == report.warnings
        IN /\ \A i \in 1..Len(w) :
                 /\ w[i].check_name = "positive_values"
                 /\ w[i].severity = "error"
                 /\ w[i].details.column \in PositiveConcepts
           /\ \A col \in PositiveConcepts :
                 Cardinality({i \in 1..Len(w) : w[i].details.column = col})
                     = Cardinality(NegativeRows(col))

\* a negative total_equity and a negative net_income: one error
C16_Witness ==
    /\ HasRun("positive_values")
    /\ Len(panel) = 2
    /\ panel[1].total_equity = Num(-5)
    /\ panel[2].net_income = Num(-5)
    /\ Len(report.warnings) = 1
    /\ report.warnings[1].details.column = "total_equity"

RatioColumns == {"leverage", "roe", "roa"}

\* the value is below the interval of the ratio: leverage [4, 20],
\* roe [-0.5, 0.5], roa [-0.1, 0.1]
BelowInterval(col, v) ==
    CASE col = "leverage" -> v.n < 4 * v.d
      [] col = "roe" -> 2 * v.n < -v.d
      [] col = "roa" -> 10 * v.n < -v.d

AboveInterval(col, v) ==
    CASE col = "leverage" -> v.n > 20 * v.d
      [] col = "roe" -> 2 * v.n > v.d
      [] col = "roa" -> 10 * v.n > v.d

\* C17: check_reasonable_ratios appends exactly one WARNING for each (row,
\* ratio) whose value is outside the closed interval of the ratio,
\* 'unusually low' below it and 'unusually high' above it; values on a
\* bound, inside the interval or missing give nothing.
C17_RatioWarnings ==
    HasRun("reasonable_ratios") =>
        LET w == report.warnings
            Count(col, text) ==
                Cardinality({i \in 1..Len(w) : w[i].message = <<col, text>>})
        IN /\ \A i \in 1..Len(w) :
                 /\ w[i].check_name = "reasonable_ratios"
                 /\ w[i].severity = "warning"
                 /\ w[i].message[1] \in RatioColumns
                 /\ w[i].message[2] \in {"is unusually low", "is unusually high"}
           /\ \A col \in RatioColumns :
                 /\ Count(col, "is unusually low") =
                       Cardinality({i \in 1..Len(panel) :
                           /\ HasValue(panel[i], col)
                           /\ BelowInterval(col, panel[i][col])})
                 /\ Count(col, "is unusually high") =
                       Cardinality({i \in 1..Len(panel) :
                           /\ HasValue(panel[i], col)
                           /\ AboveInterval(col, panel[i][col])})

\* leverage 3 is unusually low, leverage 20 is on the bound
C17_Witness ==
    /\ HasRun("reasonable_ratios")
    /\ Len(panel) = 2
    /\ panel[1].leverage = Num(3)
    /\ panel[2].leverage = Num(20)
    /\ Len(report.warnings) = 1
    /\ report.warnings[1].message = <<"leverage", "is unusually low">>

RequiredConcepts == {"total_assets", "total_equity", "net_income"}

Entities == {panel[i].ticker : i \in 1..Len(panel)}

\* the entity has a value for the concept in at least one of its periods
Reports(ticker, item) ==
    \E i \in 1..Len(panel) : panel[i].ticker = ticker /\ HasValue(panel[i], item)

\* C18: check_completeness appends one ERROR per (entity, required concept)
\* for every entity with no value for the concept in any of its periods,
\* whatever the other entities report, and nothing for an entity that has
\* the concept in at least one period.
C18_CompletenessPerEntity ==
    HasRun("completeness") =>
        \A ticker \in Entities, item \in RequiredConcepts :
            Cardinality({i \in 1..Len(report.warnings) :
                            /\ report.warnings[i].severity = "error"
                            /\ report.warnings[i].ticker = ticker
                            /\ report.warnings[i].details.item = item})
                = IF Reports(ticker, item) THEN 0 ELSE 1

Reported == pc = "reported"

\* what the check function appends to an empty report for the panel
Alone(name) ==
    CASE name = "balance_sheet_identity" ->
            check_balance_sheet_identity(panel, QualityReport, tolerance_default).warnings
      [] name = "positive_values" -> check_positive_values(panel, QualityReport).warnings
      [] name = "temporal_consistency" ->
            check_temporal_consistency(panel, QualityReport, max_change_default).warnings
      [] name = "completeness" ->
            check_completeness(panel, QualityReport, required_items_default).warnings
      [] name = "reasonable_ratios" ->
            check_reasonable_ratios(panel, QualityReport).warnings

AlwaysRun ==
    <<"balance_sheet_identity", "positive_values", "temporal_consistency",
      "completeness">>

\* C19: run_all_checks executes the balance-identity, sign-validity,
\* temporal-consistency and completeness checks whatever the earlier ones
\* found and whatever include_kpi_checks is, and the ratio-plausibility
\* check exactly when include_kpi_checks is true; checks_run names the
\* executed checks, each once, and each executed check left its warnings.
C19_RunAllChecks ==
    Reported =>
        /\ report.checks_run =
              IF include_kpi_checks THEN Append(AlwaysRun, "reasonable_ratios")
              ELSE AlwaysRun
        /\ \A name \in Range(report.checks_run) : WarningsOf(name) = Alone(name)
        /\ \A i \in 1..Len(report.warnings) :
              report.warnings[i].check_name \in Range(report.checks_run)

\* errors of the sign check did not keep the completeness and the ratio
\* checks from running and reporting
C19_Witness ==
    /\ Reported
    /\ include_kpi_checks = TRUE
    /\ WarningsOf("positive_values") # <<>>
    /\ WarningsOf("reasonable_ratios") # <<>>
    /\ Len(report.checks_run) = 5

\* the number of times the warning is in the sequence
CountOf(ws, w) == Cardinality({i \in 1..Len(ws) : ws[i] = w})

SameBag(a, b) == \A w \in Range(a) \cup Range(b) : CountOf(a, w) = CountOf(b, w)

\* C20: the checks are independent and order-insensitive: whatever the
\* report held when a check was applied, the warnings the check appended are
\* those it appends to an empty report, and once all five have been applied,
\* in any order, the report holds the same multiset of warnings.
C20_OrderInsensitive ==
    (pc = "checking") =>
        /\ \A name \in Range(report.checks_run) : WarningsOf(name) = Alone(name)
        /\ Len(report.checks_run) = 5 =>
              SameBag(report.warnings,
                      Alone("balance_sheet_identity") \o Alone("positive_values")
                        \o Alone("temporal_consistency") \o Alone("completeness")
                        \o Alone("reasonable_ratios"))

\* all five applied, the completeness check first and the sign check last,
\* on a report that already held errors; both left their warnings
C20_Witness ==
    /\ pc = "checking"
    /\ Len(report.checks_run) = 5
    /\ report.checks_run[1] = "completeness"
    /\ report.checks_run[5] = "positive_values"
    /\ WarningsOf("completeness") # <<>>
    /\ WarningsOf("positive_values") # <<>>

-----------------------------------------------------------------------------
(* Properties of the pipeline, the wide projection, the cache and the       *)
(* loader                                                                  *)

RunDone == pc = "ran"

Artifacts ==
    <<"fundamentals_quarterly", "fundamentals_quarterly_wide", "kpis_quarterly",
      "quality_report", "data_dictionary">>

\* C21: a run of the pipeline over any raw-facts table completes every stage
\* without raising and writes every artifact, also when no fact survives the
\* year/period filter or no concept is resolved; warnings of severity error
\* do not interrupt it.
C21_RunAlwaysCompletes ==
    RunDone => ~outputs.raised /\ outputs.written = Artifacts

\* the columns of the table that quality_report.csv holds
ReportHeader == <<"check_name", "severity", "ticker", "period", "message">>

\* C22: an empty quality report still serializes to a header-only table, with
\* the columns check_name, severity, ticker, period and message and no data
\* row.
C22_EmptyReportHeaderOnly ==
    RunDone /\ "quality_report" \in Range(outputs.written)
            /\ outputs.report.warnings = <<>>
        => /\ outputs.quality_report.header = ReportHeader
           /\ outputs.quality_report.lines = <<>>

\* a run whose quality checks found nothing has written its report
C22_Witness ==
    /\ RunDone
    /\ "quality_report" \in Range(outputs.written)
    /\ outputs.report.warnings = <<>>
    /\ Len(outputs.report.checks_run) = 5

\* the rows of fundamentals_quarterly are the values the resolution rules
\* selected: the one of a period and concept, NaN when there is none
Selected(key, item) ==
    LET rows == outputs.fundamentals_quarterly
        hit(r) == KeyOf(r) = key /\ r.line_item = item
    IN IF \E i \in 1..Len(rows) : hit(rows[i])
       THEN (CHOOSE r \in Range(rows) : hit(r)).value
       ELSE NaN

\* the value kpis_quarterly records for a period and KPI, NaN when none
Recorded(key, kpi) ==
    LET rows == outputs.kpis_quarterly
        hit(r) == KeyOf(r) = key /\ r.kpi_name = kpi
    IN IF \E i \in 1..Len(rows) : hit(rows[i])
       THEN (CHOOSE r \in Range(rows) : hit(r)).value
       ELSE NaN

\* the ratio function of a KPI, called on hand-assembled values
Direct(key, kpi) ==
    CASE kpi = "roe" ->
            return_on_equity(Selected(key, "net_income"),
                             Selected(key, "total_equity"), TRUE, 4)
      [] kpi = "roa" ->
            return_on_assets(Selected(key, "net_income"),
                             Selected(key, "total_assets"), TRUE, 4)
      [] kpi = "equity_to_assets" ->
            equity_to_assets(Selected(key, "total_equity"),
                             Selected(key, "total_assets"))
      [] kpi = "leverage" ->
            leverage_ratio(Selected(key, "total_assets"),
                           Selected(key, "total_equity"))

RoundTripKpis == {"roe", "roa", "equity_to_assets", "leverage"}

\* C23: normalizing a fact set, projecting it to wide format and deriving a
\* KPI from the wide row with calculate_all_kpis gives the value that the
\* KPI's ratio function gives on the hand-assembled values the resolution
\* rules selected; net income 13 and equity 300 give a roe of 13/75, about
\* 0.1733.
C23_RoundTrip ==
    RunDone /\ "kpis_quarterly" \in Range(outputs.written) =>
        \A r \in Range(outputs.fundamentals_quarterly) : \A kpi \in RoundTripKpis :
            Recorded(KeyOf(r), kpi) = Direct(KeyOf(r), kpi)

\* the facts NetIncomeLoss = 13 and StockholdersEquity = 300 of one period
\* went through the pipeline and the roe recorded is 13/75
C23_Witness ==
    /\ RunDone
    /\ "kpis_quarterly" \in Range(outputs.written)
    /\ \E r \in Range(outputs.fundamentals_quarterly) :
          /\ Selected(KeyOf(r), "net_income") = Num(13)
          /\ Selected(KeyOf(r), "total_equity") = Num(300)
          /\ Recorded(KeyOf(r), "roe") = Frac(13, 75)

\* the period-end dates of the facts of a row's period that passed the
\* year/period filter
DatesOfPeriod(r) ==
    {raw_facts[i].date : i \in {j \in 1..Len(raw_facts) :
        /\ raw_facts[j].ticker = r.ticker
        /\ raw_facts[j].fy = r.fiscal_year
        /\ raw_facts[j].fp = r.fiscal_period
        /\ PassesFilter(raw_facts[j])}}

\* C26: every row normalize emits for an entity and period carries the same
\* date, the maximum period-end date over all facts of that period that
\* passed the year/period filter, whatever their tag, unit or form and
\* whichever concept the row is for.
C26_PeriodDate ==
    Done /\ ~raised =>
        \A r \in Rows : \A d \in DatesOfPeriod(r) :
            /\ r.date >= d
            /\ r.date \in DatesOfPeriod(r)

\* a row whose date is not the date of the fact it was resolved from
C26_Witness ==
    /\ Done
    /\ ~raised
    /\ \E r \in Rows :
          /\ r.date = 2
          /\ \A i \in 1..Len(raw_facts) :
                raw_facts[i].tag = r.source_tag => raw_facts[i].date = 1

\* the facts of a row's period under a tag, in the unit of the row's concept
TagFactsOf(r, tag) ==
    {f \in Range(raw_facts) :
        /\ f.ticker = r.ticker /\ f.fy = r.fiscal_year /\ f.fp = r.fiscal_period
        /\ f.tag = tag /\ f.unit = MappingOf(r.line_item).unit_filter}

\* C27: no row emitted by normalize has a null or NaN value: a tag whose
\* selected candidate is NaN counts as no match and resolution goes on with
\* the next tag in priority order, and a concept none of whose tags yields a
\* value is omitted for the period.
C27_NoNaNRows ==
    Done =>
      /\ \A r \in Rows :
            LET tags == MappingOf(r.line_item).tags
            IN /\ r.value.k = "num"
               /\ \A j \in 1..(TagIndex(tags, r.source_tag) - 1) :
                     \A f \in TagFactsOf(r, tags[j]) :
                        \E g \in TagFactsOf(r, tags[j]) : IsNaN(g.value)
      /\ \A g \in Range(raw_facts), m \in Range(mappings) :
            (\A f \in Range(raw_facts) :
                (/\ f.ticker = g.ticker /\ f.fy = g.fy /\ f.fp = g.fp
                 /\ f.tag \in Range(m.tags) /\ f.unit = m.unit_filter)
                    => IsNaN(f.value))
            => ~\E r \in Rows : RowKey(r) = <<g.ticker, g.fy, g.fp, m.name>>

\* the first two tags of net_income have a NaN fact each and the third a
\* value: the row carries the third tag and its value
C27_Witness ==
    /\ Done
    /\ Len(raw_facts) = 3
    /\ \E i, j \in 1..3 :
        /\ raw_facts[i].tag = "us-gaap:NetIncomeLoss" /\ IsNaN(raw_facts[i].value)
        /\ raw_facts[j].tag = "us-gaap:ProfitLoss" /\ IsNaN(raw_facts[j].value)
    /\ Len(output) = 1
    /\ output[1].source_tag = "us-gaap:NetIncomeLossAvailableToCommonStockholdersBasic"
    /\ output[1].value = Num(200)

\* the rows of the long frame with a key and a line item, in frame order
InputRows(key, item) ==
    SelectSeq(output, LAMBDA r : KeyOf(r) = key /\ r.line_item = item)

WideDone == pc = "done" /\ output # <<>> /\ wide # NoFrame

\* C28: to_wide_format gives exactly one row per distinct (ticker,
\* fiscal_year, fiscal_period, date) of its input and one column per line
\* item of any input row; a cell holds the value of the input row with that
\* key and line item, the first such value when several rows share them, and
\* is missing when there is no such row.
C28_WideFormat ==
    WideDone =>
      /\ ~wide.raised
      /\ wide.columns = {output[i].line_item : i \in 1..Len(output)}
      /\ {KeyOf(wide.rows[j]) : j \in 1..Len(wide.rows)}
            = {KeyOf(output[i]) : i \in 1..Len(output)}
      /\ \A i, j \in 1..Len(wide.rows) :
            KeyOf(wide.rows[i]) = KeyOf(wide.rows[j]) => i = j
      /\ \A j \in 1..Len(wide.rows) : \A c \in wide.columns :
            LET rows == InputRows(KeyOf(wide.rows[j]), c)
            IN wide.rows[j].cells[c] = IF rows = <<>> THEN NaN ELSE rows[1].value

\* two rows of one key and line item with different values, a second line
\* item under another key: a collision and a missing cell
C28_Witness ==
    /\ WideDone
    /\ Len(wide.rows) = 2
    /\ \E j \in 1..2, c \in wide.columns :
          LET rows == InputRows(KeyOf(wide.rows[j]), c)
          IN Len(rows) = 2 /\ rows[1].value # rows[2].value
    /\ \E j \in 1..2, c \in wide.columns : IsNaN(wide.rows[j].cells[c])

AllowanceCall == Done /\ kpi_call.fn = "allowance_coverage_ratio"

\* C29: allowance_coverage_ratio returns allowance / (loans_net + allowance)
\* whenever both values are present and loans_net + allowance is not within
\* 1e-10 of zero, also for loans_net = 0 with a non-zero allowance, and NaN
\* only when an input is missing or that denominator is near zero.
C29_AllowanceCoverage ==
    AllowanceCall =>
        LET allowance == kpi_call.args[1]
            loans_net == kpi_call.args[2]
        IN IF Missing(allowance) \/ Missing(loans_net) THEN IsNaN(kpi_result)
           ELSE IF Abs(loans_net.n + allowance.n) < Epsilon THEN IsNaN(kpi_result)
           ELSE kpi_result = Frac(allowance.n, loans_net.n + allowance.n)

\* sequence a is the beginning of sequence b
IsPrefix(a, b) == Len(a) <= Len(b) /\ SubSeq(b, 1, Len(a)) = a

\* C30: the quality report is append-only: a check function and
\* QualityReport.add leave the warnings and checks_run entries the report had
\* before the call unchanged and in the same order, adding entries at the
\* end only, and do not modify the panel they inspect.
C30_AppendOnly ==
    [][/\ IsPrefix(report.warnings, report'.warnings)
       /\ IsPrefix(report.checks_run, report'.checks_run)
       /\ (report' # report => panel' = panel)]_vars

\* a report that three calls have appended to: a warning added directly, a
\* check that left a warning after it and a check that left none
C30_Witness ==
    /\ pc = "checking"
    /\ Len(report.checks_run) >= 2
    /\ Len(report.warnings) >= 2
    /\ report.warnings[1].check_name = "manual"
    /\ report.warnings[2].check_name # "manual"

\* positions of the log
Logged == 1..Len(calls)

\* the content last stored under a key before position i, NoContent if none
LastStored(key, i) ==
    LET stores == {j \in 1..(i - 1) : calls[j].op = "store" /\ calls[j].key = key}
    IN IF stores = {} THEN NoContent ELSE calls[SetMax(stores)].arg

\* C24: after any sequence of store calls, load_text(k) and load_bytes(k)
\* return the content most recently stored under k, also for keys with '/',
\* ':' or '?', and None (has_cached false) for a key never stored; a store
\* under one key does not change what is loaded for another key.
C24_CacheRoundTrip ==
    \A i \in Logged :
        LET call == calls[i]
            last == LastStored(call.key, i)
        IN /\ call.op = "load_text" /\ last.type \in {"str", "None"}
                => call.result = last
           /\ call.op = "load_bytes" /\ last.type \in {"bytes", "None"}
                => call.result = last
           /\ call.op = "has_cached" => (call.result <=> last # NoContent)

\* call i of get_company_facts downloaded the facts: it returned data and its
\* last request, logged just before it, fetched a company facts URL
Downloaded(i) ==
    /\ calls[i].op = "get_company_facts"
    /\ ~calls[i].result.raised
    /\ i > 1
    /\ calls[i - 1].op = "GET"
    /\ \E cik \in Ciks : calls[i - 1].key = SEC_COMPANY_FACTS_URL(cik)

\* call j is a later call of get_company_facts for the ticker of call i
LaterCall(i, j) ==
    /\ i < j
    /\ calls[j].op = "get_company_facts"
    /\ calls[j].key = calls[i].key

\* the positions of the requests call j issued: the GET entries logged
\* between the call before it and itself
RequestsOf(j) ==
    {k \in 1..(j - 1) : \A l \in k..(j - 1) : calls[l].op = "GET"}

\* C25: once a call of get_company_facts(t) has downloaded and stored the
\* facts of ticker t, every later call for t on the same cache directory
\* returns data equal to the first result and requests the company facts no
\* more.
C25_NoDuplicateDownload ==
    \A i, j \in Logged :
        Downloaded(i) /\ LaterCall(i, j)
            => /\ ~calls[j].result.raised
               /\ calls[j].result.data = calls[i].result.data
               /\ \A k \in RequestsOf(j) :
                      \A cik \in Ciks : calls[k].key # SEC_COMPANY_FACTS_URL(cik)

\* a download for one ticker, a download for another, and then the first
\* ticker asked again and answered with the data of its download
C25_Witness ==
    \E i, k, j \in Logged :
        /\ Downloaded(i) /\ Downloaded(k) /\ LaterCall(i, j)
        /\ i < k /\ k < j
        /\ calls[k].key # calls[i].key
        /\ calls[j].result.data = calls[i].result.data

====
